---- MODULE Spec2Model ----
(***************************************************************************)
(* Verification model of voiceTypeless (crates/core and src-tauri).        *)
(*                                                                         *)
(*   SpecSession : the SessionManager state machine (domain/session.rs)    *)
(*   SpecJobs    : the JobQueue methods (usecase/job_queue.rs)             *)
(*   SpecSpawn   : the JobQueue with the spawner of each job's task        *)
(*   SpecApp     : every AppService operation called from the command      *)
(*                 thread, the session and store mutexes taken step by     *)
(*                 step (usecase/app_service.rs)                           *)
(*   SpecFwd     : the operations behind the Tauri commands, concurrently  *)
(*                 with the pipeline event forwarder thread                *)
(*   SpecS1      : AppService driven through the raw-mode scenario S1      *)
(***************************************************************************)
EXTENDS Naturals, Integers, Sequences, FiniteSets, TLC

VARIABLES
    active,      \* SessionManager.active : Option<Session>, <<>> or <<session>>
    mgrLast,     \* last SessionManager call made directly: op, arg, pre, ret
    clock,       \* the wall clock read by chrono::Utc::now()
    nextId,      \* number of session ids generated so far (uuid v4)
    rows,        \* table sessions : session_id -> row
    segments,    \* table segments : sequence of rows in insertion order
    clipboard,   \* text held by the system clipboard
    metrics,     \* Metrics.counters
    pipeline,    \* AppService.pipeline : TRUE when Some(AudioPipeline)
    events,      \* TranscriptFinal events queued towards the forwarder
    sessLock,    \* owner of AppService.session_mgr (Mutex), "" when free
    storeLock,   \* owner of AppService.storage (Mutex), "" when free
    pc,          \* per thread: position inside the AppService call
    loc,         \* per thread: locals of the call in progress
    result,      \* per thread: outcome of the last finished call
    effect,      \* per thread: the call changed persisted rows, clipboard,
                 \*   metrics counters or the pipeline
    written,     \* segment ids whose text deliver_last wrote to the clipboard
    script,      \* commands still to be issued by the scenario driver
    visited,     \* session state observed after each scenario command
    jobs,        \* JobQueue.jobs : job_id -> JobEntry
    nextJob,     \* number of job ids generated so far
    task,        \* per job: the tokio task spawned for it
    spawner,     \* per job: position of its spawner
    signalled,   \* per job: the cancel receiver got the one-shot value
    jobLast,     \* last JobQueue call: op, arg, ret
    pipes,       \* every AudioPipeline started so far, in the order of start
    handle,      \* AppService.pipeline: 0 for None, else the index in pipes
    cmd,         \* command thread: position inside stop_pipeline / drop
    produced,    \* number of TranscriptFinal events sent by the workers
    received,    \* calls of on_pipeline_transcript by the forwarders, in order
    closed,      \* per pipeline: sessions started when its stop flag was stored, 0 before
    vad,         \* a VadProcessor: config, state, counters, buffered samples
    vadOut,      \* the events returned by the last call on it
    vadLast,     \* the last call on it: op, rms, and the processor before it
    vadRun,      \* a scripted run of frames: frames fed, events emitted
    sttPipe,     \* an SttPipeline: state, position in transcribe, events sent
    dict,        \* dictionary_entries, the active mode, the entries the last transcript got
    pp,          \* a text, a dictionary, and the results of post-processing it repeatedly
    hist,        \* sessions.created_at by row, and the last list_history call and its page
    store,       \* sessions and segments with created_at, the active session, the day, the build
    ring,        \* the ring buffer, its producer and consumer, and the samples accepted and popped
    capt,        \* the capture callback's counters and the NoInput events of the current run of zero frames
    tgl,         \* the toggle_recording command: its position, the events it emitted, what it returned
    perr,        \* PipelineEvent::Error events: queued to the forwarder, and what the forwarder did with the last one
    walk,        \* a caller of list_history that follows next_cursor: its position, limit, cursor and the rows it was given
    stream       \* the events of one VadProcessor so far: SpeechStart since the finalization before, finalizations since the last SpeechStart

sessionVars == <<active, mgrLast>>
appVars == <<clock, nextId, rows, segments, clipboard, metrics, pipeline,
             events, sessLock, storeLock, pc, loc, result, effect, written>>
scenarioVars == <<script, visited>>
jobVars == <<jobs, nextJob, task, spawner, signalled, jobLast>>
vadVars == <<vad, vadOut, vadLast>>
pipeVars == <<pipes, handle, cmd, produced, received, closed>>
libVars == <<vadRun, sttPipe, dict, pp, hist, store, ring, capt, tgl,
            perr, walk, stream>>
audioVars == <<pipeVars, vadVars, libVars>>
vars == <<sessionVars, appVars, scenarioVars, jobVars, audioVars>>

(***************************************************************************)
(* Bounds                                                                  *)
(***************************************************************************)
MaxNow == 2
MaxClock == 1
MaxSessions == 2
MaxSegments == 2
MaxEvents == 1
MaxCount == 1
MaxJobs == 2
MaxDeliveries == 2

(***************************************************************************)
(* domain/types.rs, domain/session.rs                                      *)
(***************************************************************************)
Modes == {"raw", "memo", "tech", "email_jp", "minutes"}

None == <<>>
Some(x) == <<x>>

\* SessionState: the unit variants and Error { code, message, recoverable }
State(name) == [name |-> name, code |-> "", recoverable |-> FALSE]
Idle == State("idle")
Recording == State("recording")
Transcribing == State("transcribing")
Rewriting == State("rewriting")
Delivering == State("delivering")
ErrorState(code, recoverable) ==
    [name |-> "error", code |-> code, recoverable |-> recoverable]

as_str(state) == state.name

Session_new(session_id, mode, now) ==
    [session_id |-> session_id, state |-> Idle, mode |-> mode,
     created_at |-> now, updated_at |-> now]

\* Results of the SessionManager mutators: the new value of `active` and
\* either the StateTransition or the AppError code.
StateTransition(session_id, prev, new) ==
    [session_id |-> session_id, prev_state |-> prev, new_state |-> new]
NoTransition == StateTransition(0, "", State(""))

OkResult(act, tr) == [ok |-> TRUE, code |-> "", active |-> act, transition |-> tr]
ErrResult(act, code) ==
    [ok |-> FALSE, code |-> code, active |-> act, transition |-> NoTransition]

E_INVALID_STATE == "E_INVALID_STATE"
E_INTERNAL == "E_INTERNAL"

\* session.state = new; session.updated_at = now; Ok(StateTransition{..})
Transit(act, new, now) ==
    OkResult(Some([act[1] EXCEPT !.state = new, !.updated_at = now]),
             StateTransition(act[1].session_id, as_str(act[1].state), new))

SM_start_session(act, session_id, mode, now) ==
    Some(Session_new(session_id, mode, now))

SM_stop_session(act) == None

\* pause_recording that refuses every session
SM_pause_recording_Refuse(act, now) == ErrResult(act, E_INVALID_STATE)

SM_pause_recording(act, now) ==
    IF act = None THEN ErrResult(act, E_INTERNAL)
    ELSE IF act[1].state = Recording THEN Transit(act, Idle, now)
    ELSE ErrResult(act, E_INVALID_STATE)

SM_toggle_recording(act, now) ==
    IF act = None THEN ErrResult(act, E_INTERNAL)
    ELSE IF act[1].state = Idle THEN Transit(act, Recording, now)
    ELSE IF act[1].state = Recording THEN Transit(act, Transcribing, now)
    ELSE ErrResult(act, E_INVALID_STATE)

SM_on_transcript_done_AlwaysRewrite(act, now) ==
    IF act = None THEN ErrResult(act, E_INTERNAL)
    ELSE IF act[1].state = Transcribing THEN Transit(act, Rewriting, now)
    ELSE ErrResult(act, E_INVALID_STATE)

SM_on_transcript_done(act, now) ==
    IF act = None THEN ErrResult(act, E_INTERNAL)
    ELSE IF act[1].state = Transcribing
         THEN IF act[1].mode = "raw" THEN Transit(act, Delivering, now)
                                     ELSE Transit(act, Rewriting, now)
    ELSE ErrResult(act, E_INVALID_STATE)

SM_on_rewrite_done(act, now) ==
    IF act = None THEN ErrResult(act, E_INTERNAL)
    ELSE IF act[1].state = Rewriting THEN Transit(act, Delivering, now)
    ELSE ErrResult(act, E_INVALID_STATE)

SM_on_deliver_done(act, now) ==
    IF act = None THEN ErrResult(act, E_INTERNAL)
    ELSE IF act[1].state = Delivering THEN Transit(act, Idle, now)
    ELSE ErrResult(act, E_INVALID_STATE)

\* Returns Option<StateTransition>: None (ok = FALSE, no code) without session
SM_on_error(act, code, recoverable, now) ==
    IF act = None THEN ErrResult(act, "")
    ELSE Transit(act, ErrorState(code, recoverable), now)

SM_recover_from_error_AnyError(act, now) ==
    IF act = None THEN ErrResult(act, E_INTERNAL)
    ELSE IF act[1].state.name = "error" THEN Transit(act, Idle, now)
    ELSE ErrResult(act, E_INVALID_STATE)

SM_recover_from_error(act, now) ==
    IF act = None THEN ErrResult(act, E_INTERNAL)
    ELSE IF act[1].state.name = "error" /\ act[1].state.recoverable
         THEN Transit(act, Idle, now)
    ELSE ErrResult(act, E_INVALID_STATE)

SM_set_mode(act, mode) ==
    IF act = None THEN ErrResult(act, E_INTERNAL)
    ELSE OkResult(Some([act[1] EXCEPT !.mode = mode]), NoTransition)

(***************************************************************************)
(* VadProcessor (vad.rs).  Thresholds and rms values are in thousandths,   *)
(* buffers are sample counts, events are records with the fields of        *)
(* VadEvent and AudioSegment that the segmenter computes.                  *)
(***************************************************************************)
MaxSegFrames == 201

\* impl Default for VadConfig
VadConfig_default ==
    [speech_start_threshold |-> 20, speech_end_threshold |-> 10,
     speech_end_silence_ms |-> 700, max_segment_ms |-> 30000,
     min_segment_ms |-> 500, min_speech_ms |-> 100, min_gap_ms |-> 300,
     sample_rate |-> 16000, frame_size |-> 320]

\* Configurations of 20 ms frames with short timeouts: silence timeout of 2
\* frames, a maximum of 4 frames or the default, speech confirmed at once or
\* after 3 frames, no gap, a gap below one frame or a gap of 2 frames
VadConfigs ==
    {[VadConfig_default EXCEPT !.speech_end_silence_ms = 40,
                               !.max_segment_ms = mx,
                               !.min_segment_ms = 30,
                               !.min_speech_ms = sp,
                               !.min_gap_ms = gap] :
        mx \in {80, 30000}, sp \in {0, 60}, gap \in {0, 10, 40}}

\* rms of a frame: below the end threshold, between the two, above the start
Rms == {5, 15, 100}

SpeechStart == [type |-> "SpeechStart", duration_ms |-> 0, samples |-> 0, wav |-> FALSE]
SegmentForceCut ==
    [type |-> "SegmentForceCut", duration_ms |-> 0, samples |-> 0, wav |-> FALSE]
SegmentDiscarded(duration_ms) ==
    [type |-> "SegmentDiscarded", duration_ms |-> duration_ms, samples |-> 0,
     wav |-> FALSE]
\* SegmentReady(AudioSegment{duration_ms, samples: Some(..), wav_path})
SegmentReady(duration_ms, samples, wav) ==
    [type |-> "SegmentReady", duration_ms |-> duration_ms, samples |-> samples,
     wav |-> wav]

\* (frame_size as f32 / sample_rate as f32 * 1000.0) as u32; for 320 and 160
\* samples at 16 kHz the f32 product is the whole number 20.0 and 10.0
frame_duration_ms(config) == (config.frame_size * 1000) \div config.sample_rate

\* ((n as f64 / sample_rate as f64) * 1000.0) as u32.  The quotient is
\* rounded to f64, the product is rounded again, and `as u32` truncates: for
\* these (n, sample_rate) the f64 product is 4019.9999999999995 and
\* 4059.9999999999995, just below the whole numbers 4020 and 4060
F64BelowWhole == {<<64320, 16000>>, <<64960, 16000>>}
duration_ms(n, sample_rate) ==
    IF sample_rate > 0
    THEN IF <<n, sample_rate>> \in F64BelowWhole
         THEN (n * 1000) \div sample_rate - 1
         ELSE (n * 1000) \div sample_rate
    ELSE 0

VadProcessor_new(config) ==
    LET frame_ms == frame_duration_ms(config)
        fd == IF frame_ms > 1 THEN frame_ms ELSE 1
    IN  [config |-> config, state |-> "Silence", segment_samples |-> 0,
         silence_frame_count |-> 0, pending_frame_count |-> 0,
         cooldown_frame_count |-> 0,
         silence_frames_needed |-> config.speech_end_silence_ms \div fd,
         max_frames |-> config.max_segment_ms \div fd,
         min_speech_frames |-> config.min_speech_ms \div fd,
         min_gap_frames |-> config.min_gap_ms \div fd,
         segment_frame_count |-> 0, pending_samples |-> 0]

\* update_config recomputes the frame counts and stores the configuration,
\* whatever the state of the processor
update_config(v, config) ==
    LET frame_ms == frame_duration_ms(config)
        fd == IF frame_ms > 1 THEN frame_ms ELSE 1
    IN  [v EXCEPT !.silence_frames_needed = config.speech_end_silence_ms \div fd,
                  !.max_frames = config.max_segment_ms \div fd,
                  !.min_speech_frames = config.min_speech_ms \div fd,
                  !.min_gap_frames = config.min_gap_ms \div fd,
                  !.config = config]

\* Every operation returns the processor after the call and its events
VadResult(v, evs) == [vad |-> v, events |-> evs]

\* wav_ok: write_wav returned Ok
finalize_segment(v, wav_ok) ==
    LET samples == v.segment_samples
        v1 == [v EXCEPT !.segment_samples = 0, !.silence_frame_count = 0,
                        !.segment_frame_count = 0,
                        !.state = IF v.min_gap_frames > 0 THEN "Cooldown"
                                  ELSE "Silence",
                        !.cooldown_frame_count =
                            IF v.min_gap_frames > 0 THEN 0 ELSE @]
        d == duration_ms(samples, v.config.sample_rate)
    IN  IF d < v.config.min_segment_ms
        THEN VadResult(v1, <<SegmentDiscarded(d)>>)
        ELSE VadResult(v1, <<SegmentReady(d, samples, wav_ok)>>)

silence_frame(v, frame, rms) ==
    IF rms >= v.config.speech_start_threshold
    THEN IF v.min_speech_frames = 0
         THEN VadResult([v EXCEPT !.state = "Speaking", !.segment_samples = frame,
                                  !.silence_frame_count = 0,
                                  !.segment_frame_count = 1],
                        <<SpeechStart>>)
         ELSE VadResult([v EXCEPT !.state = "PendingSpeech",
                                  !.pending_samples = frame,
                                  !.pending_frame_count = 1],
                        <<>>)
    ELSE VadResult(v, <<>>)

\* a PendingSpeech branch that confirms the speech before it looks at the rms
pending_frame_PromoteFirst(v, frame, rms) ==
    IF v.pending_frame_count + 1 >= v.min_speech_frames
    THEN VadResult([v EXCEPT !.state = "Speaking",
                             !.segment_samples = v.pending_samples + frame,
                             !.pending_samples = 0, !.silence_frame_count = 0,
                             !.segment_frame_count = v.pending_frame_count + 1,
                             !.pending_frame_count = 0],
                   <<SpeechStart>>)
    ELSE VadResult([v EXCEPT !.pending_samples = @ + frame,
                             !.pending_frame_count = @ + 1], <<>>)

pending_frame(v, frame, rms) ==
    LET v1 == [v EXCEPT !.pending_samples = @ + frame,
                        !.pending_frame_count = @ + 1]
    IN  IF rms < v.config.speech_end_threshold
        THEN VadResult([v1 EXCEPT !.state = "Silence", !.pending_samples = 0,
                                  !.pending_frame_count = 0],
                       <<>>)
        ELSE IF v1.pending_frame_count >= v1.min_speech_frames
        THEN VadResult([v1 EXCEPT !.state = "Speaking",
                                  !.segment_samples = v1.pending_samples,
                                  !.pending_samples = 0,
                                  !.silence_frame_count = 0,
                                  !.segment_frame_count = v1.pending_frame_count,
                                  !.pending_frame_count = 0],
                       <<SpeechStart>>)
        ELSE VadResult(v1, <<>>)

\* a Speaking branch without the forced cut at max_frames
speaking_frame_NoForceCut(v, frame, rms, wav_ok) ==
    LET v1 == [v EXCEPT !.segment_samples = @ + frame,
                        !.segment_frame_count = @ + 1,
                        !.silence_frame_count =
                            IF rms < v.config.speech_end_threshold THEN @ + 1
                            ELSE 0]
    IN  IF v1.silence_frame_count >= v1.silence_frames_needed
        THEN finalize_segment(v1, wav_ok)
        ELSE VadResult(v1, <<>>)

speaking_frame(v, frame, rms, wav_ok) ==
    LET v1 == [v EXCEPT !.segment_samples = @ + frame,
                        !.segment_frame_count = @ + 1,
                        !.silence_frame_count =
                            IF rms < v.config.speech_end_threshold THEN @ + 1
                            ELSE 0]
    IN  IF v1.segment_frame_count >= v1.max_frames
        THEN LET f == finalize_segment(v1, wav_ok)
             IN  VadResult(f.vad, <<SegmentForceCut>> \o f.events)
        ELSE IF v1.silence_frame_count >= v1.silence_frames_needed
        THEN finalize_segment(v1, wav_ok)
        ELSE VadResult(v1, <<>>)

cooldown_frame(v) ==
    LET v1 == [v EXCEPT !.cooldown_frame_count = @ + 1]
    IN  IF v1.cooldown_frame_count >= v1.min_gap_frames
        THEN VadResult([v1 EXCEPT !.state = "Silence", !.cooldown_frame_count = 0],
                       <<>>)
        ELSE VadResult(v1, <<>>)

\* frame: the number of samples of the slice
process_frame(v, frame, rms, wav_ok) ==
    CASE v.state = "Silence" -> silence_frame(v, frame, rms)
      [] v.state = "PendingSpeech" -> pending_frame(v, frame, rms)
      [] v.state = "Speaking" -> speaking_frame(v, frame, rms, wav_ok)
      [] v.state = "Cooldown" -> cooldown_frame(v)

\* a flush that leaves a pending buffer alone
flush_SpeakingOnly(v, wav_ok) ==
    IF v.state = "Speaking" /\ v.segment_samples # 0
    THEN finalize_segment(v, wav_ok)
    ELSE VadResult(v, <<>>)

flush(v, wav_ok) ==
    IF v.state = "Speaking" /\ v.segment_samples # 0
    THEN finalize_segment(v, wav_ok)
    ELSE IF v.state = "PendingSpeech" /\ v.pending_samples # 0
    THEN finalize_segment([v EXCEPT !.segment_samples = v.pending_samples,
                                    !.pending_samples = 0,
                                    !.state = "Speaking"],
                          wav_ok)
    ELSE VadResult(v, <<>>)

reset(v) ==
    [v EXCEPT !.state = "Silence", !.segment_samples = 0, !.pending_samples = 0,
              !.silence_frame_count = 0, !.pending_frame_count = 0,
              !.cooldown_frame_count = 0, !.segment_frame_count = 0]

NoVadCall == [op |-> "", rms |-> 0, pre |-> VadProcessor_new(VadConfig_default)]

(***************************************************************************)
(* Initial states of the components                                        *)
(***************************************************************************)
Threads == {"ui", "fwd"}

NoCall == [op |-> "", arg |-> <<>>, pre |-> None, ret |-> ErrResult(None, "")]
NoLoc == [now |-> 0, mode |-> "", text |-> "", session_id |-> 0, segment_id |-> 0,
          transition |-> NoTransition]
NoRes == "none"

SessionInit == active = None /\ mgrLast = NoCall

\* AppService::new, Metrics::new, Storage::migrate on an empty database
AppInit ==
    /\ clock = 0
    /\ nextId = 0
    /\ rows = <<>>
    /\ segments = <<>>
    /\ clipboard = ""
    /\ metrics = [sessions_started |-> 0, segments_transcribed |-> 0,
                  segments_rewritten |-> 0, segments_delivered |-> 0]
    /\ pipeline = FALSE
    /\ events = 0
    /\ sessLock = ""
    /\ storeLock = ""
    /\ pc = [t \in Threads |-> "idle"]
    /\ loc = [t \in Threads |-> NoLoc]
    /\ result = [t \in Threads |-> NoRes]
    /\ effect = [t \in Threads |-> FALSE]
    /\ written = <<>>

ScenarioInit == script = <<>> /\ visited = <<>>

\* JobQueue::new
JobInit ==
    /\ jobs = <<>>
    /\ nextJob = 0
    /\ task = <<>>
    /\ spawner = <<>>
    /\ signalled = <<>>
    /\ jobLast = [op |-> "", arg |-> 0, ret |-> {}]

\* AppService::new: pipeline: Mutex::new(None); no worker, no forwarder
\* Every other component is left alone by the calls on one of them
Rest_vadRun == <<sttPipe, dict, pp, hist, store, ring, capt, tgl, perr, walk,
                  stream>>
Only_vadRun ==
    UNCHANGED <<sessionVars, appVars, scenarioVars, jobVars, pipeVars, vadVars,
                Rest_vadRun>>
Rest_sttPipe == <<vadRun, dict, pp, hist, store, ring, capt, tgl, perr, walk,
                   stream>>
Only_sttPipe ==
    UNCHANGED <<sessionVars, appVars, scenarioVars, jobVars, pipeVars, vadVars,
                Rest_sttPipe>>
Rest_dict == <<vadRun, sttPipe, pp, hist, store, ring, capt, tgl, perr,
                walk, stream>>
Only_dict ==
    UNCHANGED <<sessionVars, appVars, scenarioVars, jobVars, pipeVars, vadVars,
                Rest_dict>>
Rest_pp == <<vadRun, sttPipe, dict, hist, store, ring, capt, tgl, perr,
              walk, stream>>
Only_pp ==
    UNCHANGED <<sessionVars, appVars, scenarioVars, jobVars, pipeVars, vadVars,
                Rest_pp>>
Rest_hist == <<vadRun, sttPipe, dict, pp, store, ring, capt, tgl, perr,
                walk, stream>>
Only_hist ==
    UNCHANGED <<sessionVars, appVars, scenarioVars, jobVars, pipeVars, vadVars,
                Rest_hist>>
Rest_store == <<vadRun, sttPipe, dict, pp, hist, ring, capt, tgl, perr, walk,
                 stream>>
Only_store ==
    UNCHANGED <<sessionVars, appVars, scenarioVars, jobVars, pipeVars, vadVars,
                Rest_store>>
Rest_ring == <<vadRun, sttPipe, dict, pp, hist, store, capt, tgl, perr,
                walk, stream>>
Only_ring ==
    UNCHANGED <<sessionVars, appVars, scenarioVars, jobVars, pipeVars, vadVars,
                Rest_ring>>
Rest_capt == <<vadRun, sttPipe, dict, pp, hist, store, ring, tgl, perr,
                walk, stream>>
Only_capt ==
    UNCHANGED <<sessionVars, appVars, scenarioVars, jobVars, pipeVars, vadVars,
                Rest_capt>>
Rest_tgl == <<vadRun, sttPipe, dict, pp, hist, store, ring, capt, perr,
               walk, stream>>
Only_tgl ==
    UNCHANGED <<sessionVars, appVars, scenarioVars, jobVars, pipeVars, vadVars,
                Rest_tgl>>
Rest_perr == <<vadRun, sttPipe, dict, pp, hist, store, ring, capt, tgl,
                walk, stream>>
Only_perr ==
    UNCHANGED <<sessionVars, appVars, scenarioVars, jobVars, pipeVars, vadVars,
                Rest_perr>>
Rest_walk == <<vadRun, sttPipe, dict, pp, hist, store, ring, capt, tgl,
                perr, stream>>
Only_walk ==
    UNCHANGED <<sessionVars, appVars, scenarioVars, jobVars, pipeVars, vadVars,
                Rest_walk>>
Rest_stream == <<vadRun, sttPipe, dict, pp, hist, store, ring, capt, tgl,
                  perr, walk>>
Only_stream ==
    UNCHANGED <<sessionVars, appVars, scenarioVars, jobVars, pipeVars, vadVars,
                Rest_stream>>

\* capacity of the ring buffer, samples offered to it, length of a slice
RingCapacity == 2
MaxOffered == 4
MaxSlice == 3

\* The initial value of each component
Init_vadRun ==
    vadRun = [fed |-> 0, log |-> <<>>]
Init_sttPipe ==
    sttPipe = [state |-> "Idle", pc |-> "idle", start |-> 0, res |-> "", sent |-> <<>>]
Init_dict ==
    dict = [table |-> <<>>, mode |-> "raw", op |-> "", got |-> <<>>]
Init_pp ==
    pp = [text |-> <<>>, entries |-> <<>>, out |-> <<>>]
Init_hist ==
    hist = [table |-> <<>>, limit |-> 0, cursor |-> <<>>, page |-> <<>>]
Init_store ==
    store = [sessions |-> {}, segments |-> {}, active |-> 0, state |-> "", ids |-> 0, now |-> 0, fk |-> FALSE]
Init_ring ==
    ring = [buf |-> [i \in 0..(RingCapacity - 1) |-> 0], read |-> 0, write |-> 0, prod |-> [pc |-> "idle", len |-> 0, free |-> 0, n |-> 0], cons |-> [pc |-> "idle", len |-> 0, avail |-> 0, n |-> 0], offered |-> 0, accepted |-> <<>>, popped |-> <<>>]
Init_capt ==
    capt = [timeout_ms |-> 3000, threshold |-> 0, frames |-> 0, zero |-> 0, run |-> 0, fired |-> 0]
Init_tgl ==
    tgl = [pc |-> "idle", moved |-> FALSE, failed |-> FALSE, emitted |-> <<>>, ret |-> ""]
Init_perr ==
    perr = [queued |-> 0, sent |-> 0, last |-> [before |-> "", after |-> "", emitted |-> <<>>]]
Init_walk ==
    walk = [pc |-> "idle", limit |-> 0, cursor |-> None, seen |-> <<>>]
Init_stream ==
    stream = [starts |-> 0, at_final |-> 1, started |-> FALSE, finals |-> 0, pending_flush |-> FALSE]

LibInit ==
    /\ Init_vadRun
    /\ Init_sttPipe
    /\ Init_dict
    /\ Init_pp
    /\ Init_hist
    /\ Init_store
    /\ Init_ring
    /\ Init_capt
    /\ Init_tgl
    /\ Init_perr
    /\ Init_walk
    /\ Init_stream

\* The initial values of the components other than one of them
RestInit_vadRun == Init_sttPipe /\ Init_dict /\ Init_pp /\ Init_hist /\ Init_store /\ Init_ring /\ Init_capt /\ Init_tgl /\ Init_perr /\ Init_walk /\ Init_stream
RestInit_sttPipe == Init_vadRun /\ Init_dict /\ Init_pp /\ Init_hist /\ Init_store /\ Init_ring /\ Init_capt /\ Init_tgl /\ Init_perr /\ Init_walk /\ Init_stream
RestInit_dict == Init_vadRun /\ Init_sttPipe /\ Init_pp /\ Init_hist /\ Init_store /\ Init_ring /\ Init_capt /\ Init_tgl /\ Init_perr /\ Init_walk /\ Init_stream
RestInit_pp == Init_vadRun /\ Init_sttPipe /\ Init_dict /\ Init_hist /\ Init_store /\ Init_ring /\ Init_capt /\ Init_tgl /\ Init_perr /\ Init_walk /\ Init_stream
RestInit_hist == Init_vadRun /\ Init_sttPipe /\ Init_dict /\ Init_pp /\ Init_store /\ Init_ring /\ Init_capt /\ Init_tgl /\ Init_perr /\ Init_walk /\ Init_stream
RestInit_store == Init_vadRun /\ Init_sttPipe /\ Init_dict /\ Init_pp /\ Init_hist /\ Init_ring /\ Init_capt /\ Init_tgl /\ Init_perr /\ Init_walk /\ Init_stream
RestInit_ring == Init_vadRun /\ Init_sttPipe /\ Init_dict /\ Init_pp /\ Init_hist /\ Init_store /\ Init_capt /\ Init_tgl /\ Init_perr /\ Init_walk /\ Init_stream
RestInit_capt == Init_vadRun /\ Init_sttPipe /\ Init_dict /\ Init_pp /\ Init_hist /\ Init_store /\ Init_ring /\ Init_tgl /\ Init_perr /\ Init_walk /\ Init_stream
RestInit_tgl == Init_vadRun /\ Init_sttPipe /\ Init_dict /\ Init_pp /\ Init_hist /\ Init_store /\ Init_ring /\ Init_capt /\ Init_perr /\ Init_walk /\ Init_stream
RestInit_perr == Init_vadRun /\ Init_sttPipe /\ Init_dict /\ Init_pp /\ Init_hist /\ Init_store /\ Init_ring /\ Init_capt /\ Init_tgl /\ Init_walk /\ Init_stream
RestInit_walk == Init_vadRun /\ Init_sttPipe /\ Init_dict /\ Init_pp /\ Init_hist /\ Init_store /\ Init_ring /\ Init_capt /\ Init_tgl /\ Init_perr /\ Init_stream
RestInit_stream == Init_vadRun /\ Init_sttPipe /\ Init_dict /\ Init_pp /\ Init_hist /\ Init_store /\ Init_ring /\ Init_capt /\ Init_tgl /\ Init_perr /\ Init_walk

AudioInit ==
    /\ pipes = <<>>
    /\ closed = <<>>
    /\ handle = 0
    /\ cmd = [pc |-> "idle", gen |-> 0, then |-> ""]
    /\ produced = 0
    /\ received = <<>>
    /\ vad = VadProcessor_new(VadConfig_default)
    /\ vadOut = <<>>
    /\ vadLast = NoVadCall
    /\ LibInit

(***************************************************************************)
(* SpecSession: every SessionManager method called directly, in any order, *)
(* with any timestamp (the unit tests pass a constant `now`).              *)
(***************************************************************************)
Nows == 0..MaxNow
ErrorCodes == {"E_DEVICE", "E_INTERNAL"}

MgrCall(op, arg, r) ==
    /\ mgrLast' = [op |-> op, arg |-> arg, pre |-> active,
                   ret |-> [r EXCEPT !.active = None]]
    /\ active' = r.active
    /\ UNCHANGED <<appVars, scenarioVars, jobVars, audioVars>>

MgrStartSession ==
    \E id \in 1..MaxSessions, m \in Modes, now \in Nows :
        MgrCall("start_session", <<m>>,
                OkResult(SM_start_session(active, id, m, now), NoTransition))

MgrStopSession ==
    MgrCall("stop_session", <<>>, OkResult(SM_stop_session(active), NoTransition))

MgrPauseRecording ==
    \E now \in Nows : MgrCall("pause_recording", <<>>, SM_pause_recording(active, now))

MgrToggleRecording ==
    \E now \in Nows : MgrCall("toggle_recording", <<>>, SM_toggle_recording(active, now))

MgrOnTranscriptDone ==
    \E now \in Nows :
        MgrCall("on_transcript_done", <<>>, SM_on_transcript_done(active, now))

MgrOnRewriteDone ==
    \E now \in Nows : MgrCall("on_rewrite_done", <<>>, SM_on_rewrite_done(active, now))

MgrOnDeliverDone ==
    \E now \in Nows : MgrCall("on_deliver_done", <<>>, SM_on_deliver_done(active, now))

MgrOnError ==
    \E c \in ErrorCodes, rec \in BOOLEAN, now \in Nows :
        MgrCall("on_error", <<c, rec>>, SM_on_error(active, c, rec, now))

MgrRecoverFromError ==
    \E now \in Nows :
        MgrCall("recover_from_error", <<>>, SM_recover_from_error(active, now))

MgrSetMode ==
    \E m \in Modes : MgrCall("set_mode", <<m>>, SM_set_mode(active, m))

InitSession == SessionInit /\ AppInit /\ ScenarioInit /\ JobInit /\ AudioInit

NextSession ==
    \/ MgrStartSession
    \/ MgrStopSession
    \/ MgrPauseRecording
    \/ MgrToggleRecording
    \/ MgrOnTranscriptDone
    \/ MgrOnRewriteDone
    \/ MgrOnDeliverDone
    \/ MgrOnError
    \/ MgrRecoverFromError
    \/ MgrSetMode

SpecSession == InitSession /\ [][NextSession]_vars

(***************************************************************************)
(* C1                                                                      *)
(***************************************************************************)
TransitionOps == {"toggle_recording", "pause_recording", "on_transcript_done",
                  "on_rewrite_done", "on_deliver_done", "on_error",
                  "recover_from_error"}

\* The table of legal transitions: Some(target) or None for a refused pair.
LegalTarget(op, arg, st, mode) ==
    CASE op = "toggle_recording" /\ st = Idle -> Some(Recording)
      [] op = "toggle_recording" /\ st = Recording -> Some(Transcribing)
      [] op = "pause_recording" /\ st = Recording -> Some(Idle)
      [] op = "on_transcript_done" /\ st = Transcribing /\ mode = "raw" -> Some(Delivering)
      [] op = "on_transcript_done" /\ st = Transcribing /\ mode # "raw" -> Some(Rewriting)
      [] op = "on_rewrite_done" /\ st = Rewriting -> Some(Delivering)
      [] op = "on_deliver_done" /\ st = Delivering -> Some(Idle)
      [] op = "on_error" -> Some(ErrorState(arg[1], arg[2]))
      [] op = "recover_from_error" /\ st.name = "error" /\ st.recoverable -> Some(Idle)
      [] OTHER -> None

\* C1: with an active session, a SessionManager transition call succeeds
\* exactly on the pairs of the table and then moves to the table's target
\* state; every other pair (recover_from_error on a non-recoverable error
\* included) fails with InvalidState and leaves the session as it was.
C1_TransitionTable ==
    (mgrLast.op \in TransitionOps /\ mgrLast.pre # None) =>
        LET pre == mgrLast.pre[1]
            tgt == LegalTarget(mgrLast.op, mgrLast.arg, pre.state, pre.mode)
        IN  IF tgt # None
            THEN /\ mgrLast.ret.ok
                 /\ active # None
                 /\ active[1].state = tgt[1]
                 /\ active[1].session_id = pre.session_id
                 /\ active[1].mode = pre.mode
                 /\ mgrLast.ret.transition.prev_state = as_str(pre.state)
                 /\ mgrLast.ret.transition.new_state = tgt[1]
            ELSE /\ ~mgrLast.ret.ok
                 /\ mgrLast.ret.code = E_INVALID_STATE
                 /\ active = mgrLast.pre

C1_Witness ==
    /\ mgrLast.op = "recover_from_error"
    /\ mgrLast.pre # None
    /\ mgrLast.pre[1].state.name = "error"
    /\ ~mgrLast.pre[1].state.recoverable
    /\ mgrLast.ret.code = E_INVALID_STATE
    /\ active = mgrLast.pre

(***************************************************************************)
(* usecase/job_queue.rs, domain/job.rs                                     *)
(*                                                                         *)
(* A JobEntry is [session_id, status, error, cancel_tx, handle]; cancel_tx *)
(* and handle are TRUE for Some(..). Every method runs under the map's     *)
(* mutex, so each is one step. The methods are operators from the map to   *)
(* [jobs, ret, sent, aborted]: the new map, the return value, the jobs     *)
(* whose one-shot sender fired and the jobs whose JoinHandle was aborted.  *)
(***************************************************************************)
JobSessions == {"s1", "s2"}
JobErrors == {"STT timeout"}
Terminal == {"done", "failed", "canceled"}
Cancellable == {"queued", "running"}

JobOut(js, ret, sent, aborted) ==
    [jobs |-> js, ret |-> ret, sent |-> sent, aborted |-> aborted]

\* HashMap::insert
MapInsert(js, id, entry) ==
    [j \in DOMAIN js \cup {id} |-> IF j = id THEN entry ELSE js[j]]

JQ_enqueue(js, id, session_id) ==
    JobOut(MapInsert(js, id, [session_id |-> session_id, status |-> "queued",
                              error |-> "", cancel_tx |-> TRUE, handle |-> FALSE]),
           id, {}, {})

JQ_set_handle(js, id) ==
    IF id \in DOMAIN js THEN JobOut([js EXCEPT ![id].handle = TRUE], {}, {}, {})
    ELSE JobOut(js, {}, {}, {})

JQ_mark_running(js, id) ==
    IF id \in DOMAIN js THEN JobOut([js EXCEPT ![id].status = "running"], {}, {}, {})
    ELSE JobOut(js, {}, {}, {})

JQ_mark_done(js, id) ==
    IF id \in DOMAIN js
    THEN JobOut([js EXCEPT ![id].status = "done", ![id].cancel_tx = FALSE,
                           ![id].handle = FALSE], {}, {}, {})
    ELSE JobOut(js, {}, {}, {})

JQ_mark_failed(js, id, error) ==
    IF id \in DOMAIN js
    THEN JobOut([js EXCEPT ![id].status = "failed", ![id].error = error,
                           ![id].cancel_tx = FALSE, ![id].handle = FALSE],
                {}, {}, {})
    ELSE JobOut(js, {}, {}, {})

\* The body shared by cancel and cancel_session for one cancellable entry
CancelEntry(e) == [e EXCEPT !.status = "canceled", !.cancel_tx = FALSE,
                            !.handle = FALSE]

JQ_cancel(js, id) ==
    IF id \in DOMAIN js /\ js[id].status \in Cancellable
    THEN JobOut([js EXCEPT ![id] = CancelEntry(js[id])], TRUE,
                IF js[id].cancel_tx THEN {id} ELSE {},
                IF js[id].handle THEN {id} ELSE {})
    ELSE JobOut(js, FALSE, {}, {})

JQ_cancel_session_AnySession(js, session_id) ==
    LET hit == {j \in DOMAIN js : js[j].status \in Cancellable}
    IN  JobOut([j \in DOMAIN js |-> IF j \in hit THEN CancelEntry(js[j]) ELSE js[j]],
               hit,
               {j \in hit : js[j].cancel_tx},
               {j \in hit : js[j].handle})

JQ_cancel_session(js, session_id) ==
    LET hit == {j \in DOMAIN js : /\ js[j].session_id = session_id
                                  /\ js[j].status \in Cancellable}
    IN  JobOut([j \in DOMAIN js |-> IF j \in hit THEN CancelEntry(js[j]) ELSE js[j]],
               hit,
               {j \in hit : js[j].cancel_tx},
               {j \in hit : js[j].handle})

JQ_cleanup_completed(js) ==
    LET keep == {j \in DOMAIN js : js[j].status \notin Terminal}
    IN  JobOut([j \in keep |-> js[j]], {}, {}, {})

\* One JobQueue call: the map, the fired senders and the aborted handles.
\* JoinHandle::abort stops a task that is still running. jobLast keeps the
\* argument and the return value of cancel and cancel_session only.
JobCall(op, arg, out) ==
    /\ jobs' = out.jobs
    /\ signalled' = [j \in DOMAIN signalled |-> signalled[j] \/ j \in out.sent]
    /\ task' = [j \in DOMAIN task |->
                   IF j \in out.aborted /\ task[j] = "live" THEN "aborted" ELSE task[j]]
    /\ jobLast' = [op |-> op, arg |-> arg, ret |-> out.ret]

\* The spawner of a job: enqueue, tokio::spawn, set_handle
Enqueue ==
    /\ nextJob < MaxJobs
    /\ \E s \in JobSessions :
          /\ nextJob' = nextJob + 1
          /\ jobs' = JQ_enqueue(jobs, nextJob + 1, s).jobs
          /\ task' = Append(task, "none")
          /\ spawner' = Append(spawner, "enqueued")
          /\ signalled' = Append(signalled, FALSE)
          /\ jobLast' = [op |-> "enqueue", arg |-> 0, ret |-> {}]
    /\ UNCHANGED <<sessionVars, appVars, scenarioVars, audioVars>>

Spawn ==
    /\ \E j \in DOMAIN spawner :
          /\ spawner[j] = "enqueued"
          /\ spawner' = [spawner EXCEPT ![j] = "spawned"]
          /\ task' = [task EXCEPT ![j] = "live"]
          /\ jobLast' = [op |-> "spawn", arg |-> 0, ret |-> {}]
    /\ UNCHANGED <<jobs, nextJob, signalled>>
    /\ UNCHANGED <<sessionVars, appVars, scenarioVars, audioVars>>

SetHandle ==
    /\ \E j \in DOMAIN spawner :
          /\ spawner[j] = "spawned"
          /\ spawner' = [spawner EXCEPT ![j] = "done"]
          /\ JobCall("set_handle", 0, JQ_set_handle(jobs, j))
    /\ UNCHANGED nextJob
    /\ UNCHANGED <<sessionVars, appVars, scenarioVars, audioVars>>

\* The spawned future runs to its end (its result, or the cancel receiver)
TaskExit ==
    /\ \E j \in DOMAIN task :
          /\ task[j] = "live"
          /\ task' = [task EXCEPT ![j] = "exited"]
          /\ jobLast' = [op |-> "task_exit", arg |-> 0, ret |-> {}]
    /\ UNCHANGED <<jobs, nextJob, spawner, signalled>>
    /\ UNCHANGED <<sessionVars, appVars, scenarioVars, audioVars>>

MarkRunning ==
    /\ \E j \in 1..MaxJobs : JobCall("mark_running", 0, JQ_mark_running(jobs, j))
    /\ UNCHANGED <<nextJob, spawner>>
    /\ UNCHANGED <<sessionVars, appVars, scenarioVars, audioVars>>

MarkDone ==
    /\ \E j \in 1..MaxJobs : JobCall("mark_done", 0, JQ_mark_done(jobs, j))
    /\ UNCHANGED <<nextJob, spawner>>
    /\ UNCHANGED <<sessionVars, appVars, scenarioVars, audioVars>>

MarkFailed ==
    /\ \E j \in 1..MaxJobs, e \in JobErrors :
          JobCall("mark_failed", 0, JQ_mark_failed(jobs, j, e))
    /\ UNCHANGED <<nextJob, spawner>>
    /\ UNCHANGED <<sessionVars, appVars, scenarioVars, audioVars>>

Cancel ==
    /\ \E j \in 1..MaxJobs : JobCall("cancel", j, JQ_cancel(jobs, j))
    /\ UNCHANGED <<nextJob, spawner>>
    /\ UNCHANGED <<sessionVars, appVars, scenarioVars, audioVars>>

CancelSession ==
    /\ \E s \in JobSessions : JobCall("cancel_session", s, JQ_cancel_session(jobs, s))
    /\ UNCHANGED <<nextJob, spawner>>
    /\ UNCHANGED <<sessionVars, appVars, scenarioVars, audioVars>>

CleanupCompleted ==
    /\ JobCall("cleanup_completed", 0, JQ_cleanup_completed(jobs))
    /\ UNCHANGED <<nextJob, spawner>>
    /\ UNCHANGED <<sessionVars, appVars, scenarioVars, audioVars>>

InitJobs == SessionInit /\ AppInit /\ ScenarioInit /\ JobInit /\ AudioInit

\* SpecJobs: the methods of JobQueue that create, mark, cancel and remove
\* entries, called in any order (no task is spawned, no handle is set)
NextJobs ==
    \/ Enqueue
    \/ MarkRunning
    \/ MarkDone
    \/ MarkFailed
    \/ Cancel
    \/ CancelSession
    \/ CleanupCompleted

\* SpecSpawn: the same methods, and each job's spawner, which spawns the task
\* and then calls set_handle
NextSpawn ==
    \/ Enqueue
    \/ Spawn
    \/ SetHandle
    \/ TaskExit
    \/ MarkRunning
    \/ MarkDone
    \/ MarkFailed
    \/ Cancel
    \/ CancelSession
    \/ CleanupCompleted

SpecSpawn == InitJobs /\ [][NextSpawn]_vars

SpecJobs == InitJobs /\ [][NextJobs]_vars

(***************************************************************************)
(* C5 - C8                                                                 *)
(***************************************************************************)
\* C5: once a job is done, failed or canceled, no call changes its status
\* or its error; the entry can only still be removed, by cleanup_completed.
C5_TerminalIsFinal ==
    [][\A j \in DOMAIN jobs :
          jobs[j].status \in Terminal =>
             IF j \in DOMAIN jobs'
             THEN /\ jobs'[j].status = jobs[j].status
                  /\ jobs'[j].error = jobs[j].error
             ELSE jobLast'.op = "cleanup_completed"]_vars

\* C6: cancel(job_id) returns true exactly when the job exists and is Queued
\* or Running, and then the job is Canceled and its receiver gets the
\* one-shot signal; otherwise it returns false, signals nothing and changes
\* no entry.
C6_CancelSignals ==
    [][jobLast'.op = "cancel" =>
          LET j == jobLast'.arg
              can == j \in DOMAIN jobs /\ jobs[j].status \in Cancellable
          IN  /\ jobLast'.ret = can
              /\ can => jobs'[j].status = "canceled" /\ signalled'[j]
              /\ ~can => jobs' = jobs /\ signalled' = signalled]_vars

\* C7: cancel_session(s) returns exactly the ids of the jobs of session s
\* that were Queued or Running, sets each of them to Canceled, and leaves
\* the jobs of other sessions and the terminal jobs unchanged.
C7_CancelSessionFrame ==
    [][jobLast'.op = "cancel_session" =>
          LET s == jobLast'.arg
              hit == {j \in DOMAIN jobs : /\ jobs[j].session_id = s
                                          /\ jobs[j].status \in Cancellable}
          IN  /\ jobLast'.ret = hit
              /\ DOMAIN jobs' = DOMAIN jobs
              /\ \A j \in hit : jobs'[j].status = "canceled"
              /\ \A j \in DOMAIN jobs \ hit : jobs'[j] = jobs[j]]_vars

C7_Witness ==
    /\ jobLast.op = "cancel_session"
    /\ jobLast.ret # {}
    /\ \A j \in jobLast.ret : jobs[j].status = "canceled"
    /\ \E j \in DOMAIN jobs : /\ jobs[j].session_id # jobLast.arg
                              /\ jobs[j].status \in Cancellable

\* C8: whatever the interleaving of the spawner with cancel and
\* cancel_session, a job that ends up Canceled has no live task left.
C8_CanceledTaskAborted ==
    \A j \in DOMAIN jobs :
        (spawner[j] = "done" /\ jobs[j].status = "canceled") => task[j] # "live"

(***************************************************************************)
(* AppService (usecase/app_service.rs) with storage (infra/storage),       *)
(* metrics, the clipboard output and the audio pipeline.  Commands run on  *)
(* the thread "ui"; the event forwarder thread "fwd" calls                 *)
(* on_pipeline_transcript.  A step that locks a Mutex is enabled only      *)
(* while the Mutex is free; guards are dropped when the call returns.      *)
(***************************************************************************)
U == "ui"
F == "fwd"

AppModes == {"raw", "memo"}
AppNows == 0..MaxClock
Texts == {"hello world", " hello  world "}
Confidence == 90

dataVars == <<rows, segments, clipboard, metrics, pipeline>>

\* PostProcessor::normalize: width folding, whitespace compression, trim
normalize(text) == IF text = " hello  world " THEN "hello world" ELSE text
\* PostProcessor::apply_dictionary with the entries of the (empty) dictionary
apply_dictionary(text, entries) == text
PostProcessor_process(text, entries) == apply_dictionary(normalize(text), entries)

\* Storage: the statements of repository.rs on the two tables.  The columns
\* that are written once by the INSERT and read by no statement modelled
\* here (sessions.mode, created_at, segments.audio_path) are left out.
insert_session(tbl, session_id, mode, now) ==
    Append(tbl, [session_id |-> session_id, state |-> "idle", updated_at |-> now])
update_session_state(tbl, session_id, state, now) ==
    [i \in DOMAIN tbl |->
        IF tbl[i].session_id = session_id
        THEN [tbl[i] EXCEPT !.state = state, !.updated_at = now]
        ELSE tbl[i]]
insert_segment(tbl, session_id, now) ==
    Append(tbl, [segment_id |-> Len(tbl) + 1, session_id |-> session_id,
                 raw_text |-> "", rewritten_text |-> None, confidence |-> 0])
update_segment_text(tbl, segment_id, raw_text, confidence) ==
    [i \in DOMAIN tbl |->
        IF tbl[i].segment_id = segment_id
        THEN [tbl[i] EXCEPT !.raw_text = raw_text, !.confidence = confidence]
        ELSE tbl[i]]
update_segment_rewritten(tbl, segment_id, rewritten_text) ==
    [i \in DOMAIN tbl |->
        IF tbl[i].segment_id = segment_id
        THEN [tbl[i] EXCEPT !.rewritten_text = Some(rewritten_text)]
        ELSE tbl[i]]

\* Metrics::inc_*
inc(m, counter) == [m EXCEPT ![counter] = @ + 1]

\* Bookkeeping of a call on thread t
Goto(t, p) == pc' = [pc EXCEPT ![t] = p]
SetLoc(t, l) == loc' = [loc EXCEPT ![t] = l]
Begin(t, p, l) ==
    /\ pc[t] = "idle"
    /\ Goto(t, p)
    /\ SetLoc(t, l)
    /\ result' = [result EXCEPT ![t] = "pending"]
\* Ok(..) is "ok", Err(e) is e.code
Return(t, code) ==
    /\ Goto(t, "idle")
    /\ SetLoc(t, NoLoc)
    /\ result' = [result EXCEPT ![t] = code]
    /\ effect' = [effect EXCEPT ![t] = FALSE]
\* effect[t]: some earlier step of the call in progress on t changed the
\* rows, the clipboard, the counters or the pipeline
Touch(t) == effect' = [effect EXCEPT ![t] = @ \/ (dataVars' # dataVars)]
NoTouch(t) == effect' = [effect EXCEPT ![t] = FALSE]

\* Calls in progress that may still insert a segment row
Inserting == {t \in Threads : pc[t] \in {"toggle_recording_mgr",
                     "toggle_recording_store", "on_pipeline_transcript_store"}}
SegmentRoom == Len(segments) + Cardinality(Inserting) < MaxSegments

OtherFrame == UNCHANGED <<mgrLast, jobVars, written, audioVars>>
AppFrame == OtherFrame /\ UNCHANGED scenarioVars

(*------------------------- start_session --------------------------------*)
start_session(mode) ==
    /\ nextId < MaxSessions
    /\ Begin(U, "start_session_mgr",
             [NoLoc EXCEPT !.session_id = nextId + 1, !.mode = mode, !.now = clock])
    /\ nextId' = nextId + 1
    /\ UNCHANGED <<active, clock, dataVars, events, sessLock, storeLock>>
    /\ Touch(U)
    /\ OtherFrame

AppStartSession ==
    /\ \E mode \in AppModes : start_session(mode)
    /\ UNCHANGED scenarioVars

AppStartSessionMgr ==
    /\ pc[U] = "start_session_mgr"
    /\ sessLock = ""
    /\ sessLock' = U
    /\ active' = SM_start_session(active, loc[U].session_id, loc[U].mode, loc[U].now)
    /\ Goto(U, "start_session_store")
    /\ UNCHANGED <<clock, nextId, dataVars, events, storeLock, loc, result>>
    /\ Touch(U)
    /\ AppFrame

AppStartSessionStore ==
    /\ pc[U] = "start_session_store"
    /\ storeLock = ""
    /\ rows' = insert_session(rows, loc[U].session_id, loc[U].mode, loc[U].now)
    /\ metrics' = inc(metrics, "sessions_started")
    /\ sessLock' = ""
    /\ Return(U, "ok")
    /\ UNCHANGED <<active, clock, nextId, segments, clipboard, pipeline, events, storeLock>>
    /\ AppFrame

(*------------------------- stop_session ---------------------------------*)
AppStopSession ==
    /\ Begin(U, "stop_session_mgr", NoLoc)
    /\ pipeline' = FALSE
    /\ UNCHANGED <<active, clock, nextId, rows, segments, clipboard, metrics,
                   events, sessLock, storeLock>>
    /\ Touch(U)
    /\ AppFrame

AppStopSessionMgr ==
    /\ pc[U] = "stop_session_mgr"
    /\ sessLock = ""
    /\ UNCHANGED <<clock, nextId, dataVars, events, storeLock>>
    /\ active' = SM_stop_session(active)
    /\ IF active = None
       THEN /\ Return(U, "ok")
            /\ UNCHANGED sessLock
       ELSE /\ sessLock' = U
            /\ Goto(U, "stop_session_store")
            /\ SetLoc(U, [NoLoc EXCEPT !.session_id = active[1].session_id,
                                       !.now = clock])
            /\ UNCHANGED result
            /\ Touch(U)
    /\ AppFrame

AppStopSessionStore ==
    /\ pc[U] = "stop_session_store"
    /\ storeLock = ""
    /\ rows' = update_session_state(rows, loc[U].session_id, "idle", loc[U].now)
    /\ sessLock' = ""
    /\ Return(U, "ok")
    /\ UNCHANGED <<active, clock, nextId, segments, clipboard, metrics, pipeline,
                   events, storeLock>>
    /\ AppFrame

(*------------------------- toggle_recording -----------------------------*)
toggle_recording ==
    /\ SegmentRoom
    /\ Begin(U, "toggle_recording_mgr",
             [NoLoc EXCEPT !.now = clock])
    /\ UNCHANGED <<active, clock, nextId, dataVars, events, sessLock, storeLock>>
    /\ Touch(U)
    /\ OtherFrame

AppToggleRecording == toggle_recording /\ UNCHANGED scenarioVars

\* let mut mgr = lock(); let transition = mgr.<method>(now)?;
AppTransitionMgr(here, r, next) ==
    /\ pc[U] = here
    /\ sessLock = ""
    /\ UNCHANGED <<clock, nextId, dataVars, events, storeLock>>
    /\ active' = r.active
    /\ IF r.ok
       THEN /\ sessLock' = U
            /\ Goto(U, next)
            /\ SetLoc(U, [loc[U] EXCEPT !.transition = r.transition])
            /\ UNCHANGED result
            /\ Touch(U)
       ELSE /\ Return(U, r.code)
            /\ UNCHANGED sessLock
    /\ AppFrame

AppToggleRecordingMgr ==
    AppTransitionMgr("toggle_recording_mgr",
                     SM_toggle_recording(active, loc[U].now),
                     "toggle_recording_store")

AppToggleRecordingStore ==
    /\ pc[U] = "toggle_recording_store"
    /\ storeLock = ""
    /\ LET tr == loc[U].transition
           updated == update_session_state(rows, tr.session_id,
                                           as_str(tr.new_state), loc[U].now)
       IN  /\ rows' = updated
           /\ segments' = IF tr.new_state = Transcribing
                          THEN insert_segment(segments, tr.session_id, loc[U].now)
                          ELSE segments
    /\ sessLock' = ""
    /\ Return(U, "ok")
    /\ UNCHANGED <<active, clock, nextId, clipboard, metrics, pipeline, events, storeLock>>
    /\ AppFrame

(*------------------------- pause_recording ------------------------------*)
AppPauseRecording ==
    /\ Begin(U, "pause_recording_mgr",
             [NoLoc EXCEPT !.now = clock])
    /\ pipeline' = FALSE
    /\ UNCHANGED <<active, clock, nextId, rows, segments, clipboard, metrics,
                   events, sessLock, storeLock>>
    /\ Touch(U)
    /\ AppFrame

AppPauseRecordingMgr ==
    AppTransitionMgr("pause_recording_mgr",
                     SM_pause_recording(active, loc[U].now),
                     "pause_recording_store")

\* storage.update_session_state(&transition.session_id, new_state, &now)?; Ok
AppTransitionStore(here) ==
    /\ pc[U] = here
    /\ storeLock = ""
    /\ rows' = update_session_state(rows, loc[U].transition.session_id,
                                    as_str(loc[U].transition.new_state), loc[U].now)
    /\ sessLock' = ""
    /\ Return(U, "ok")
    /\ UNCHANGED <<active, clock, nextId, segments, clipboard, metrics, pipeline,
                   events, storeLock>>
    /\ AppFrame

AppPauseRecordingStore == AppTransitionStore("pause_recording_store")

(*------------------------- set_mode, pipeline ---------------------------*)
AppSetMode ==
    \E mode \in AppModes :
        /\ sessLock = ""
        /\ pc[U] = "idle"
        /\ LET r == SM_set_mode(active, mode)
           IN  /\ active' = r.active
               /\ result' = [result EXCEPT ![U] = IF r.ok THEN "ok" ELSE r.code]
        /\ UNCHANGED <<clock, nextId, dataVars, events, sessLock, storeLock, pc, loc>>
        /\ NoTouch(U)
        /\ AppFrame

\* AudioPipeline::start may fail (no input device): AppError::device
AppStartPipeline ==
    \E started \in BOOLEAN :
        /\ pc[U] = "idle"
        /\ pipeline' = (IF started THEN TRUE ELSE pipeline)
        /\ result' = [result EXCEPT ![U] = IF started THEN "ok" ELSE "E_DEVICE"]
        /\ UNCHANGED <<active, clock, nextId, rows, segments, clipboard, metrics,
                       events, sessLock, storeLock, pc, loc>>
        /\ NoTouch(U)
        /\ AppFrame

AppStopPipeline ==
    /\ pc[U] = "idle"
    /\ pipeline' = FALSE
    /\ result' = [result EXCEPT ![U] = "ok"]
    /\ UNCHANGED <<active, clock, nextId, rows, segments, clipboard, metrics,
                   events, sessLock, storeLock, pc, loc>>
    /\ NoTouch(U)
    /\ AppFrame

(*------------------------- on_pipeline_transcript -----------------------*)
\* The forwarder takes a TranscriptFinal event off the channel and calls
\* on_pipeline_transcript, which starts with current_session_id()
AppOnPipelineTranscript ==
    \E text \in Texts :
        /\ events > 0
        /\ events' = events - 1
        /\ SegmentRoom
        /\ metrics.segments_transcribed < MaxCount
        /\ sessLock = ""
        /\ IF active = None
           THEN /\ pc[F] = "idle"
                /\ result' = [result EXCEPT ![F] = E_INTERNAL]
                /\ UNCHANGED <<pc, loc>>
           ELSE Begin(F, "on_pipeline_transcript_store",
                      [NoLoc EXCEPT !.session_id = active[1].session_id,
                                    !.text = text])
        /\ UNCHANGED <<active, clock, nextId, dataVars, sessLock, storeLock>>
        /\ Touch(F)
        /\ AppFrame

AppOnPipelineTranscriptStore ==
    /\ pc[F] = "on_pipeline_transcript_store"
    /\ storeLock = ""
    /\ storeLock' = F
    /\ segments' = insert_segment(segments, loc[F].session_id, clock)
    /\ SetLoc(F, [loc[F] EXCEPT !.segment_id = Len(segments) + 1])
    /\ Goto(F, "on_pipeline_transcript_mgr")
    /\ UNCHANGED <<active, clock, nextId, rows, clipboard, metrics, pipeline,
                   events, sessLock, result>>
    /\ Touch(F)
    /\ AppFrame

AppOnPipelineTranscriptMgr ==
    /\ pc[F] = "on_pipeline_transcript_mgr"
    /\ sessLock = ""
    /\ segments' = update_segment_text(segments, loc[F].segment_id,
                                       PostProcessor_process(loc[F].text, <<>>),
                                       Confidence)
    /\ metrics' = inc(metrics, "segments_transcribed")
    /\ storeLock' = ""
    /\ Return(F, "ok")
    /\ UNCHANGED <<active, clock, nextId, rows, clipboard, pipeline, events, sessLock>>
    /\ AppFrame

(*------------------------- on_transcript_done ---------------------------*)
on_transcript_done(segment_id, text) ==
    /\ metrics.segments_transcribed < MaxCount
    /\ Begin(U, "on_transcript_done_store",
             [NoLoc EXCEPT !.segment_id = segment_id, !.text = text, !.now = clock])
    /\ UNCHANGED <<active, clock, nextId, dataVars, events, sessLock, storeLock>>
    /\ Touch(U)
    /\ OtherFrame

AppOnTranscriptDone ==
    /\ \E segment_id \in 1..MaxSegments, text \in Texts :
          on_transcript_done(segment_id, text)
    /\ UNCHANGED scenarioVars

\* let storage = self.storage.lock().unwrap();   (held until the call returns)
AppLockStore(here, next) ==
    /\ pc[U] = here
    /\ storeLock = ""
    /\ storeLock' = U
    /\ Goto(U, next)

AppOnTranscriptDoneStore ==
    /\ AppLockStore("on_transcript_done_store", "on_transcript_done_mode")
    /\ UNCHANGED <<active, clock, nextId, dataVars, events, sessLock, loc, result>>
    /\ Touch(U)
    /\ AppFrame

AppOnTranscriptDoneMode ==
    /\ pc[U] = "on_transcript_done_mode"
    /\ sessLock = ""
    /\ segments' = update_segment_text(segments, loc[U].segment_id,
                                       PostProcessor_process(loc[U].text, <<>>),
                                       Confidence)
    /\ Goto(U, "on_transcript_done_mgr")
    /\ UNCHANGED <<active, clock, nextId, rows, clipboard, metrics, pipeline,
                   events, sessLock, storeLock, loc, result>>
    /\ Touch(U)
    /\ AppFrame

\* let mut mgr = lock(); let transition = mgr.<method>(now)?;
\* storage.update_session_state(..)?; self.metrics.inc_<counter>(); Ok
AppTransitionHoldingStore(here, r, counter) ==
    /\ pc[U] = here
    /\ sessLock = ""
    /\ active' = r.active
    /\ IF r.ok
       THEN /\ rows' = update_session_state(rows, r.transition.session_id,
                                            as_str(r.transition.new_state), loc[U].now)
            /\ metrics' = inc(metrics, counter)
            /\ Return(U, "ok")
       ELSE /\ UNCHANGED <<rows, metrics>>
            /\ Return(U, r.code)
    /\ storeLock' = ""
    /\ UNCHANGED <<clock, nextId, segments, clipboard, pipeline, events, sessLock>>
    /\ AppFrame

AppOnTranscriptDoneMgr ==
    AppTransitionHoldingStore("on_transcript_done_mgr",
                              SM_on_transcript_done(active, loc[U].now),
                              "segments_transcribed")

(*------------------------- on_rewrite_done ------------------------------*)
Rewritten == {"[rewritten] hello world"}

on_rewrite_done(segment_id, rewritten_text) ==
    /\ metrics.segments_rewritten < MaxCount
    /\ Begin(U, "on_rewrite_done_store",
             [NoLoc EXCEPT !.segment_id = segment_id, !.text = rewritten_text,
                           !.now = clock])
    /\ UNCHANGED <<active, clock, nextId, dataVars, events, sessLock, storeLock>>
    /\ Touch(U)
    /\ AppFrame

AppOnRewriteDone ==
    \E segment_id \in 1..MaxSegments, rewritten_text \in Rewritten :
        on_rewrite_done(segment_id, rewritten_text)

AppOnRewriteDoneStore ==
    /\ AppLockStore("on_rewrite_done_store", "on_rewrite_done_mgr")
    /\ segments' = update_segment_rewritten(segments, loc[U].segment_id, loc[U].text)
    /\ UNCHANGED <<active, clock, nextId, rows, clipboard, metrics, pipeline,
                   events, sessLock, loc, result>>
    /\ Touch(U)
    /\ AppFrame

AppOnRewriteDoneMgr ==
    AppTransitionHoldingStore("on_rewrite_done_mgr",
                              SM_on_rewrite_done(active, loc[U].now),
                              "segments_rewritten")

(*------------------------- deliver --------------------------------------*)
\* ClipboardOutput::deliver: arboard may fail to open or to write
\* (AppError::internal); on success the clipboard holds the text
deliver(text, copied) ==
    /\ metrics.segments_delivered < MaxCount
    /\ IF copied
       THEN /\ clipboard' = text
            /\ Begin(U, "deliver_mgr", [NoLoc EXCEPT !.now = clock])
       ELSE /\ pc[U] = "idle"
            /\ result' = [result EXCEPT ![U] = E_INTERNAL]
            /\ UNCHANGED <<clipboard, pc, loc>>
    /\ UNCHANGED <<active, clock, nextId, rows, segments, metrics, pipeline,
                   events, sessLock, storeLock>>
    /\ Touch(U)
    /\ OtherFrame

AppDeliver ==
    /\ \E text \in Texts, copied \in BOOLEAN : deliver(text, copied)
    /\ UNCHANGED scenarioVars

AppDeliverMgr ==
    AppTransitionMgr("deliver_mgr", SM_on_deliver_done(active, loc[U].now),
                     "deliver_store")

AppDeliverStore ==
    /\ pc[U] = "deliver_store"
    /\ storeLock = ""
    /\ rows' = update_session_state(rows, loc[U].transition.session_id,
                                    as_str(loc[U].transition.new_state), loc[U].now)
    /\ metrics' = inc(metrics, "segments_delivered")
    /\ sessLock' = ""
    /\ Return(U, "ok")
    /\ UNCHANGED <<active, clock, nextId, segments, clipboard, pipeline, events, storeLock>>
    /\ AppFrame

(*------------------------- deliver_last ---------------------------------*)
\* SessionDetail.segments.last(): the session's segment rows in the order of
\* the query, which is the insertion order while the wall clock is steady
last_segment(tbl, session_id) ==
    LET own == SelectSeq(tbl, LAMBDA seg : seg.session_id = session_id)
    IN  IF own = <<>> THEN None ELSE Some(own[Len(own)])
\* rewritten_text.as_deref().unwrap_or(&raw_text)
segment_text(seg) ==
    IF seg.rewritten_text # None THEN seg.rewritten_text[1] ELSE seg.raw_text

DeliverLastFrame == UNCHANGED <<mgrLast, jobVars, scenarioVars, audioVars>>

\* session_id of the active session, read under the session lock
AppDeliverLast ==
    /\ metrics.segments_delivered < MaxDeliveries
    /\ sessLock = ""
    /\ IF active = None
       THEN /\ pc[U] = "idle"
            /\ result' = [result EXCEPT ![U] = E_INTERNAL]
            /\ UNCHANGED <<pc, loc>>
       ELSE Begin(U, "deliver_last_store",
                  [NoLoc EXCEPT !.session_id = active[1].session_id])
    /\ UNCHANGED <<active, clock, nextId, dataVars, events, sessLock, storeLock>>
    /\ Touch(U)
    /\ AppFrame

\* get_session_detail under the storage lock, then deliver_clipboard(text)
AppDeliverLastStore ==
    /\ pc[U] = "deliver_last_store"
    /\ storeLock = ""
    /\ UNCHANGED <<active, clock, nextId, rows, segments, metrics, pipeline,
                   events, sessLock, storeLock>>
    /\ LET found == \E i \in DOMAIN rows : rows[i].session_id = loc[U].session_id
           last == last_segment(segments, loc[U].session_id)
       IN  \E copied \in BOOLEAN :
              IF found /\ last # None /\ copied
              THEN /\ clipboard' = segment_text(last[1])
                   /\ written' = Append(written, last[1].segment_id)
                   /\ Goto(U, "deliver_last_state")
                   /\ SetLoc(U, [loc[U] EXCEPT !.segment_id = last[1].segment_id,
                                               !.text = segment_text(last[1])])
                   /\ UNCHANGED result
                   /\ Touch(U)
              ELSE /\ Return(U, E_INTERNAL)
                   /\ UNCHANGED <<clipboard, written>>
    /\ DeliverLastFrame

\* current_state read under the session lock; inc_segments_delivered
AppDeliverLastState ==
    /\ pc[U] = "deliver_last_state"
    /\ sessLock = ""
    /\ metrics' = inc(metrics, "segments_delivered")
    /\ UNCHANGED <<active, clock, nextId, rows, segments, clipboard, pipeline,
                   events, sessLock, storeLock>>
    /\ IF active # None /\ as_str(active[1].state) = "delivering"
       THEN /\ Goto(U, "deliver_last_mgr")
            /\ SetLoc(U, [loc[U] EXCEPT !.now = clock])
            /\ UNCHANGED result
            /\ Touch(U)
       ELSE Return(U, "ok")
    /\ AppFrame

AppDeliverLastMgr ==
    AppTransitionMgr("deliver_last_mgr", SM_on_deliver_done(active, loc[U].now),
                     "deliver_last_update")

AppDeliverLastUpdate == AppTransitionStore("deliver_last_update")

(*------------------------- environment ----------------------------------*)
\* chrono::Utc::now() reads the system's wall clock, which advances and can
\* be set to any value (NTP step, manual change) between two reads
ClockStep ==
    /\ \E now \in AppNows \ {clock} : clock' = now
    /\ UNCHANGED <<active, nextId, dataVars, events, sessLock, storeLock, pc, loc,
                   result, effect>>
    /\ AppFrame

\* A running pipeline sends PipelineEvent::TranscriptFinal to the forwarder
PipelineEmit ==
    /\ pipeline
    /\ events < MaxEvents
    /\ events' = events + 1
    /\ UNCHANGED <<active, clock, nextId, dataVars, sessLock, storeLock, pc, loc,
                   result, effect>>
    /\ AppFrame

InitApp == SessionInit /\ AppInit /\ ScenarioInit /\ JobInit /\ AudioInit

\* SpecApp: every AppService operation, called from the command thread
NextApp ==
    \/ AppStartSession
    \/ AppStartSessionMgr
    \/ AppStartSessionStore
    \/ AppStopSession
    \/ AppStopSessionMgr
    \/ AppStopSessionStore
    \/ AppToggleRecording
    \/ AppToggleRecordingMgr
    \/ AppToggleRecordingStore
    \/ AppPauseRecording
    \/ AppPauseRecordingMgr
    \/ AppPauseRecordingStore
    \/ AppSetMode
    \/ AppStartPipeline
    \/ AppStopPipeline
    \/ AppOnTranscriptDone
    \/ AppOnTranscriptDoneStore
    \/ AppOnTranscriptDoneMode
    \/ AppOnTranscriptDoneMgr
    \/ AppOnRewriteDone
    \/ AppOnRewriteDoneStore
    \/ AppOnRewriteDoneMgr
    \/ AppDeliver
    \/ AppDeliverMgr
    \/ AppDeliverStore
    \/ ClockStep

SpecApp == InitApp /\ [][NextApp]_vars

\* SpecFwd: the operations behind the Tauri commands (commands.rs) on the
\* command thread, concurrently with the event forwarder thread
NextFwd ==
    \/ AppStartSession
    \/ AppStartSessionMgr
    \/ AppStartSessionStore
    \/ AppStopSession
    \/ AppStopSessionMgr
    \/ AppStopSessionStore
    \/ AppToggleRecording
    \/ AppToggleRecordingMgr
    \/ AppToggleRecordingStore
    \/ AppPauseRecording
    \/ AppPauseRecordingMgr
    \/ AppPauseRecordingStore
    \/ AppSetMode
    \/ AppStartPipeline
    \/ AppOnRewriteDone
    \/ AppOnRewriteDoneStore
    \/ AppOnRewriteDoneMgr
    \/ AppOnPipelineTranscript
    \/ AppOnPipelineTranscriptStore
    \/ AppOnPipelineTranscriptMgr
    \/ PipelineEmit
    \/ ClockStep

SpecFwd == InitApp /\ [][NextFwd]_vars

\* SpecDeliver: recording, transcript, rewrite and the two delivery commands
\* (deliver, deliver_last) on the command thread, with a steady clock
NextDeliver ==
    \/ AppStartSession
    \/ AppStartSessionMgr
    \/ AppStartSessionStore
    \/ AppToggleRecording
    \/ AppToggleRecordingMgr
    \/ AppToggleRecordingStore
    \/ AppOnTranscriptDone
    \/ AppOnTranscriptDoneStore
    \/ AppOnTranscriptDoneMode
    \/ AppOnTranscriptDoneMgr
    \/ AppOnRewriteDone
    \/ AppOnRewriteDoneStore
    \/ AppOnRewriteDoneMgr
    \/ AppDeliver
    \/ AppDeliverMgr
    \/ AppDeliverStore
    \/ AppDeliverLast
    \/ AppDeliverLastStore
    \/ AppDeliverLastState
    \/ AppDeliverLastMgr
    \/ AppDeliverLastUpdate

SpecDeliver == InitApp /\ [][NextDeliver]_vars

(***************************************************************************)
(* Claims on AppService                                                    *)
(***************************************************************************)
NonIdleRows == {i \in DOMAIN rows : rows[i].state # "idle"}

\* C2: after any sequence of start_session, stop_session and transition
\* commands at most one session has a non-idle state, in the session manager
\* (which holds at most one session) and among the persisted session rows.
C2_SingleActiveSession ==
    pc[U] = "idle" =>
        /\ Len(active) <= 1
        /\ Cardinality(NonIdleRows) <= 1

\* C4: every successful state transition of the active session made through
\* AppService leaves its updated_at strictly greater than before.
C4_UpdatedAtIncreases ==
    [][(/\ active # None
        /\ active' # None
        /\ active'[1].session_id = active[1].session_id
        /\ active'[1].state # active[1].state)
          => active'[1].updated_at > active[1].updated_at]_vars

AcquiresSession ==
    {"start_session_mgr", "stop_session_mgr", "toggle_recording_mgr",
     "pause_recording_mgr", "deliver_mgr", "on_pipeline_transcript_mgr",
     "on_transcript_done_mode", "on_transcript_done_mgr", "on_rewrite_done_mgr"}
AcquiresStore ==
    {"start_session_store", "stop_session_store", "toggle_recording_store",
     "pause_recording_store", "deliver_store", "on_pipeline_transcript_store",
     "on_transcript_done_store", "on_rewrite_done_store"}
Blocked(t) ==
    \/ pc[t] \in AcquiresSession /\ sessLock \notin {"", t}
    \/ pc[t] \in AcquiresStore /\ storeLock \notin {"", t}
Deadlocked == \A t \in Threads : Blocked(t)

\* C9: no AppService operation is about to lock the session mutex while it
\* holds the store mutex, and the command thread and the forwarder thread
\* never block each other for ever.
C9_LockOrder ==
    /\ \A t \in Threads : pc[t] \in AcquiresSession => storeLock # t
    /\ ~Deadlocked

\* C10: a command that returns E_INVALID_STATE has changed neither the
\* persisted rows, nor the clipboard, nor the counters, nor the pipeline, in
\* any of its steps.
C10_InvalidStateNoEffect ==
    [][(result[U] = "pending" /\ result'[U] = E_INVALID_STATE)
          => (~effect[U] /\ dataVars' = dataVars)]_vars

(***************************************************************************)
(* SpecS1: the raw-mode scenario.  A driver on the command thread issues   *)
(* the five commands one after the other, stops at the first Err, and      *)
(* reads current_state() after every command that returned Ok.             *)
(***************************************************************************)
S1Commands == <<"start_session", "toggle_recording", "toggle_recording",
                "on_transcript_done", "deliver">>
S1States == <<"idle", "recording", "transcribing", "delivering", "idle">>

S1Issued == Len(S1Commands) - Len(script)

S1Command ==
    /\ script # <<>>
    /\ Len(visited) = S1Issued
    /\ script' = Tail(script)
    /\ UNCHANGED visited
    /\ \/ Head(script) = "start_session" /\ start_session("raw")
       \/ Head(script) = "toggle_recording" /\ toggle_recording
       \/ /\ Head(script) = "on_transcript_done"
          /\ \E text \in Texts : on_transcript_done(Len(segments), text)
       \/ /\ Head(script) = "deliver"
          /\ \E copied \in BOOLEAN :
                deliver(segments[Len(segments)].raw_text, copied)

\* AppService::current_state
current_state == IF active = None THEN "none" ELSE as_str(active[1].state)

S1Observe ==
    /\ pc[U] = "idle"
    /\ result[U] = "ok"
    /\ sessLock = ""
    /\ Len(visited) < S1Issued
    /\ visited' = Append(visited, current_state)
    /\ UNCHANGED <<script, sessionVars, appVars, jobVars, audioVars>>

InitS1 ==
    /\ SessionInit /\ AppInit /\ JobInit /\ AudioInit
    /\ script = S1Commands
    /\ visited = <<>>

NextS1 ==
    \/ S1Command
    \/ S1Observe
    \/ AppStartSessionMgr
    \/ AppStartSessionStore
    \/ AppToggleRecordingMgr
    \/ AppToggleRecordingStore
    \/ AppOnTranscriptDoneStore
    \/ AppOnTranscriptDoneMode
    \/ AppOnTranscriptDoneMgr
    \/ AppDeliverMgr
    \/ AppDeliverStore
    \/ ClockStep

SpecS1 == InitS1 /\ [][NextS1]_vars

IsPrefix(s, t) == Len(s) <= Len(t) /\ \A i \in 1..Len(s) : s[i] = t[i]

\* C3: the raw-mode scenario start_session, toggle_recording,
\* toggle_recording, on_transcript_done, deliver visits Idle, Recording,
\* Transcribing, Delivering, Idle in that order, the session is never in
\* Rewriting, and segments_delivered goes from 0 to exactly 1, when deliver
\* returns.
C3_RawScenario ==
    /\ IsPrefix(visited, S1States)
    /\ current_state # "rewriting"
    /\ metrics.segments_delivered =
          IF script = <<>> /\ pc[U] = "idle" /\ result[U] = "ok" THEN 1 ELSE 0

C3_Witness ==
    /\ visited = S1States
    /\ metrics.segments_delivered = 1
    /\ clipboard = "hello world"

(***************************************************************************)
(* AudioPipeline (pipeline.rs): the worker thread of every pipeline, its   *)
(* capture stream, the commands that start and stop pipelines and the      *)
(* event forwarder thread spawned for each of them (commands.rs)           *)
(***************************************************************************)
MaxPipelines == 2
MaxFrames == 2

Frames == {"loud", "quiet"}
Stt == {"text", "empty", "error"}

\* AudioPipeline::start: a new stop flag and a spawned processing_loop.
\* captured, fed and owed count the frames sent on the sample channel,
\* received from it, and sent before stop stored the flag; event_q holds
\* the TranscriptFinal events of the pipeline's event channel
Pipeline_start ==
    [stop_flag |-> FALSE, worker |-> "start", capturing |-> FALSE,
     sample_q |-> <<>>, captured |-> 0, fed |-> 0, owed |-> 0,
     in_speech |-> FALSE, segment_buffer |-> 0, event_q |-> <<>>]

\* VadProcessor::process and is_in_speech as processing_loop uses them: the
\* events of one frame and whether speech goes on after it
vad_process(in_speech, frame) ==
    IF ~in_speech
    THEN IF frame = "loud"
         THEN {[events |-> {"SpeechStart"}, in_speech |-> TRUE]}
         ELSE {[events |-> {}, in_speech |-> FALSE]}
    ELSE {[events |-> {}, in_speech |-> TRUE],
          [events |-> {"MaxLengthReached"}, in_speech |-> FALSE]}
         \cup (IF frame = "quiet"
               THEN {[events |-> {"SpeechEnd"}, in_speech |-> FALSE]}
               ELSE {})

\* run_stt: the event channel after the STT call; only a non-empty text is
\* sent as TranscriptFinal
run_stt(event_q, id, stt) == IF stt = "text" THEN Append(event_q, id) ELSE event_q

\* on_pipeline_transcript: Err when there is no active session, else the
\* segment is inserted for the active session
on_pipeline_transcript(id) ==
    IF active = None
    THEN [id |-> id, session_id |-> 0, ok |-> FALSE]
    ELSE [id |-> id, session_id |-> active[1].session_id, ok |-> TRUE]

\* closed records, for every pipeline, the number of sessions started so
\* far at the step that stores its stop flag
Closed(old, ps) ==
    [g \in DOMAIN ps |->
        IF g \in DOMAIN old /\ old[g] # 0 THEN old[g]
        ELSE IF ps[g].stop_flag THEN nextId ELSE 0]

PipeFrame ==
    /\ closed' = Closed(closed, pipes')
    /\ UNCHANGED <<mgrLast, appVars, scenarioVars, jobVars, vadVars, libVars>>

\* frames sent so far on the sample channels of the pipelines ps
RECURSIVE Captured(_)
Captured(ps) == IF ps = <<>> THEN 0 ELSE Head(ps).captured + Captured(Tail(ps))

(*------------------------- worker thread --------------------------------*)
\* capture::start_capture on the worker thread
WorkerStart ==
    \E g \in DOMAIN pipes, started \in BOOLEAN :
        /\ pipes[g].worker = "start"
        /\ pipes' = [pipes EXCEPT ![g].capturing = started,
                                  ![g].worker = IF started THEN "loop" ELSE "exit"]
        /\ UNCHANGED <<active, handle, cmd, produced, received>>
        /\ PipeFrame

\* a worker that never sees the flag
WorkerLoop_IgnoreFlag ==
    \E g \in DOMAIN pipes :
        /\ pipes[g].worker = "loop"
        /\ pipes' = [pipes EXCEPT ![g].worker = "recv"]
        /\ UNCHANGED <<active, handle, cmd, produced, received>>
        /\ PipeFrame

\* while !stop_flag.load(Ordering::Relaxed)
WorkerLoop ==
    \E g \in DOMAIN pipes :
        /\ pipes[g].worker = "loop"
        /\ pipes' = [pipes EXCEPT ![g].worker =
                        IF pipes[g].stop_flag THEN "tail" ELSE "recv"]
        /\ UNCHANGED <<active, handle, cmd, produced, received>>
        /\ PipeFrame

\* recv_timeout returns Ok(samples): VAD, segment buffer, STT on a cut
WorkerFrame ==
    \E g \in DOMAIN pipes, stt \in Stt :
        LET p == pipes[g] IN
        /\ p.worker = "recv"
        /\ p.sample_q # <<>>
        /\ \E v \in vad_process(p.in_speech, Head(p.sample_q)) :
              LET buffered == IF v.in_speech \/ "SpeechStart" \in v.events
                              THEN p.segment_buffer + 1
                              ELSE p.segment_buffer
                  cut == /\ v.events \cap {"SpeechEnd", "MaxLengthReached"} # {}
                         /\ buffered > 0
                  q == IF cut THEN run_stt(p.event_q, produced + 1, stt)
                       ELSE p.event_q
              IN  /\ ~cut => stt = "text"
                  /\ pipes' = [pipes EXCEPT ![g] =
                        [p EXCEPT !.sample_q = Tail(@), !.fed = @ + 1,
                                  !.in_speech = v.in_speech,
                                  !.segment_buffer = IF cut THEN 0 ELSE buffered,
                                  !.event_q = q, !.worker = "loop"]]
                  /\ produced' = produced + Len(q) - Len(p.event_q)
        /\ UNCHANGED <<active, handle, cmd, received>>
        /\ PipeFrame

\* recv_timeout returns Err(Timeout) after 100 ms without a frame
WorkerTimeout ==
    \E g \in DOMAIN pipes :
        /\ pipes[g].worker = "recv"
        /\ pipes[g].sample_q = <<>>
        /\ pipes[g].capturing
        /\ pipes' = [pipes EXCEPT ![g].worker = "loop"]
        /\ UNCHANGED <<active, handle, cmd, produced, received>>
        /\ PipeFrame

\* recv_timeout returns Err(Disconnected): every sender is gone
WorkerDisconnected ==
    \E g \in DOMAIN pipes :
        /\ pipes[g].worker = "recv"
        /\ pipes[g].sample_q = <<>>
        /\ ~pipes[g].capturing
        /\ pipes' = [pipes EXCEPT ![g].worker = "tail"]
        /\ UNCHANGED <<active, handle, cmd, produced, received>>
        /\ PipeFrame

\* after the loop: STT on what is left in segment_buffer, then the thread
\* ends and drops the capture stream, the sample receiver with the frames
\* still queued, the VAD and the event sender
WorkerTail ==
    \E g \in DOMAIN pipes, stt \in Stt :
        LET p == pipes[g]
            q == IF p.segment_buffer > 0 THEN run_stt(p.event_q, produced + 1, stt)
                 ELSE p.event_q
        IN  /\ p.worker = "tail"
            /\ p.segment_buffer = 0 => stt = "text"
            /\ pipes' = [pipes EXCEPT ![g] =
                  [p EXCEPT !.segment_buffer = 0, !.event_q = q,
                            !.capturing = FALSE, !.sample_q = <<>>,
                            !.in_speech = FALSE, !.worker = "exit"]]
            /\ produced' = produced + Len(q) - Len(p.event_q)
            /\ UNCHANGED <<active, handle, cmd, received>>
            /\ PipeFrame

(*------------------------- capture stream -------------------------------*)
\* the stream's callback sends a frame on the sample channel
Capture ==
    \E g \in DOMAIN pipes, frame \in Frames :
        /\ pipes[g].capturing
        /\ Captured(pipes) < MaxFrames
        /\ pipes' = [pipes EXCEPT ![g].sample_q = Append(@, frame),
                                  ![g].captured = @ + 1]
        /\ UNCHANGED <<active, handle, cmd, produced, received>>
        /\ PipeFrame

\* the stream ends (input device lost) and drops its sender
CaptureEnd ==
    \E g \in DOMAIN pipes :
        /\ pipes[g].capturing
        /\ pipes' = [pipes EXCEPT ![g].capturing = FALSE]
        /\ UNCHANGED <<active, handle, cmd, produced, received>>
        /\ PipeFrame

(*------------------------- event forwarder ------------------------------*)
\* spawn_event_forwarder: the thread of pipeline g takes the next
\* TranscriptFinal off its channel and calls on_pipeline_transcript; an Err
\* is logged
Forward ==
    \E g \in DOMAIN pipes :
        /\ pipes[g].event_q # <<>>
        /\ received' = Append(received, on_pipeline_transcript(Head(pipes[g].event_q)))
        /\ pipes' = [pipes EXCEPT ![g].event_q = Tail(@)]
        /\ UNCHANGED <<active, handle, cmd, produced>>
        /\ PipeFrame

(*------------------------- commands -------------------------------------*)
\* AudioPipeline::stop up to the join: the flag is stored
stop_flag_store(ps, g) ==
    [ps EXCEPT ![g].stop_flag = TRUE, ![g].owed = ps[g].captured]

\* AppService::stop_pipeline followed by the rest of the calling method
\* (then): with no pipeline the rest runs at once, else after the join
StopPipelineThen(act, ps, then) ==
    IF handle = 0
    THEN /\ active' = (CASE then = "stop_session" -> SM_stop_session(act)
                         [] then = "pause_recording" ->
                                SM_pause_recording(act, clock).active)
         /\ pipes' = ps
         /\ UNCHANGED <<handle, cmd>>
    ELSE /\ active' = act
         /\ pipes' = stop_flag_store(ps, handle)
         /\ handle' = 0
         /\ cmd' = [pc |-> "join", gen |-> handle, then |-> then]

CmdStartSession ==
    /\ cmd.pc = "idle"
    /\ nextId < MaxSessions
    /\ nextId' = nextId + 1
    /\ active' = SM_start_session(active, nextId + 1, "raw", clock)
    /\ UNCHANGED <<clock, rows, segments, clipboard, metrics, pipeline, events,
                   sessLock, storeLock, pc, loc, result, effect, written>>
    /\ UNCHANGED <<mgrLast, scenarioVars, jobVars, audioVars>>

CmdStopSession ==
    /\ cmd.pc = "idle"
    /\ StopPipelineThen(active, pipes, "stop_session")
    /\ UNCHANGED <<produced, received>>
    /\ PipeFrame

\* the toggle_recording command: pause when recording, else toggle and
\* start a pipeline with its forwarder; a failed start is reverted by
\* pause_recording
CmdToggleRecording ==
    /\ cmd.pc = "idle"
    /\ IF current_state = "recording"
       THEN StopPipelineThen(active, pipes, "pause_recording")
       ELSE LET r == SM_toggle_recording(active, clock) IN
            IF ~r.ok
            THEN UNCHANGED <<active, pipes, handle, cmd>>
            ELSE \E started \in BOOLEAN :
                    IF started
                    THEN /\ Len(pipes) < MaxPipelines
                         /\ active' = r.active
                         /\ handle' = Len(pipes) + 1
                         /\ IF handle = 0
                            THEN /\ pipes' = Append(pipes, Pipeline_start)
                                 /\ UNCHANGED cmd
                            ELSE /\ pipes' = Append(stop_flag_store(pipes, handle),
                                                    Pipeline_start)
                                 /\ cmd' = [pc |-> "join", gen |-> handle,
                                            then |-> "drop"]
                    ELSE StopPipelineThen(r.active, pipes, "pause_recording")
    /\ UNCHANGED <<produced, received>>
    /\ PipeFrame

\* thread.join() returns once the worker has ended; then the rest of the
\* method that stopped the pipeline
CmdJoin ==
    /\ cmd.pc = "join"
    /\ pipes[cmd.gen].worker = "exit"
    /\ active' = (CASE cmd.then = "stop_session" -> SM_stop_session(active)
                    [] cmd.then = "pause_recording" ->
                           SM_pause_recording(active, clock).active
                    [] cmd.then = "drop" -> active)
    /\ cmd' = [pc |-> "idle", gen |-> 0, then |-> ""]
    /\ UNCHANGED <<pipes, handle, produced, received>>
    /\ PipeFrame

InitPipe == SessionInit /\ AppInit /\ ScenarioInit /\ JobInit /\ AudioInit

NextPipe ==
    \/ CmdStartSession
    \/ CmdStopSession
    \/ CmdToggleRecording
    \/ CmdJoin
    \/ WorkerStart
    \/ WorkerLoop
    \/ WorkerFrame
    \/ WorkerTimeout
    \/ WorkerDisconnected
    \/ WorkerTail
    \/ Capture
    \/ CaptureEnd
    \/ Forward

SpecPipe == InitPipe /\ [][NextPipe]_vars

\* A step of the worker thread of pipeline g
Worker(g) ==
    /\ g \in DOMAIN pipes
    /\ \/ WorkerStart
       \/ WorkerLoop
       \/ WorkerFrame
       \/ WorkerTimeout
       \/ WorkerDisconnected
       \/ WorkerTail
    /\ pipes'[g].worker # pipes[g].worker

\* SpecStop: one session, started, with the commands that start and stop
\* pipelines, the workers and the capture streams; the forwarders, which
\* only take events off the unbounded event channels, are left out.
\* Every worker thread and the command thread blocked in
\* join are scheduled again and again, every STT call returns, and a
\* Relaxed load of the stop flag sees a store made before it
InitStop ==
    /\ active = SM_start_session(None, 1, "raw", 0)
    /\ mgrLast = NoCall
    /\ AppInit /\ ScenarioInit /\ JobInit /\ AudioInit

NextStop ==
    \/ CmdStopSession
    \/ CmdToggleRecording
    \/ CmdJoin
    \/ WorkerStart
    \/ WorkerLoop
    \/ WorkerFrame
    \/ WorkerTimeout
    \/ WorkerDisconnected
    \/ WorkerTail
    \/ Capture
    \/ CaptureEnd

SpecStop ==
    /\ InitStop
    /\ [][NextStop]_vars
    /\ \A g \in 1..MaxPipelines : WF_vars(Worker(g))
    /\ WF_vars(CmdJoin)

(***************************************************************************)
(* SpecVad: a VadProcessor built from any of the configurations, fed       *)
(* frames of config.frame_size samples with any rms, flushed and reset in  *)
(* any order.  A speech run is followed up to MaxSegFrames frames.         *)
(***************************************************************************)
VadFrame == UNCHANGED <<sessionVars, appVars, scenarioVars, jobVars, pipeVars,
                        libVars>>

VadCall(op, rms, r) ==
    /\ vad' = r.vad
    /\ vadOut' = r.events
    /\ vadLast' = [op |-> op, rms |-> rms, pre |-> vad]
    /\ VadFrame

VadProcessFrame ==
    \E rms \in Rms, wav_ok \in BOOLEAN :
        /\ vad.segment_frame_count < MaxSegFrames
        /\ VadCall("process_frame", rms,
                   process_frame(vad, vad.config.frame_size, rms, wav_ok))

VadFlush ==
    \E wav_ok \in BOOLEAN : VadCall("flush", 0, flush(vad, wav_ok))

VadReset == VadCall("reset", 0, VadResult(reset(vad), <<>>))

InitVad ==
    /\ SessionInit /\ AppInit /\ ScenarioInit /\ JobInit
    /\ pipes = <<>>
    /\ closed = <<>>
    /\ handle = 0
    /\ cmd = [pc |-> "idle", gen |-> 0, then |-> ""]
    /\ produced = 0
    /\ received = <<>>
    /\ \E config \in VadConfigs : vad = VadProcessor_new(config)
    /\ vadOut = <<>>
    /\ vadLast = [NoVadCall EXCEPT !.pre = vad]
    /\ LibInit

NextVad ==
    \/ VadProcessFrame
    \/ VadFlush
    \/ VadReset

SpecVad == InitVad /\ [][NextVad]_vars

(***************************************************************************)
(* SpecVadCfg: SpecVad with update_config called at any point with any of  *)
(* the configurations.                                                     *)
(***************************************************************************)
VadUpdateConfig ==
    \E config \in VadConfigs :
        /\ config # vad.config
        /\ VadCall("update_config", 0, VadResult(update_config(vad, config), <<>>))

NextVadCfg ==
    \/ VadProcessFrame
    \/ VadFlush
    \/ VadReset
    \/ VadUpdateConfig

SpecVadCfg == InitVad /\ [][NextVadCfg]_vars

(***************************************************************************)
(* SpecRun: tests::speech_then_silence_produces_segment.  LoudFrames frames *)
(* of rms 0.1 and then QuietFrames frames of rms 0.005 are fed to a         *)
(* processor built from make_config (min_speech_ms = 0), with the gap of    *)
(* make_config or the default one.                                          *)
(***************************************************************************)
LoudFrames == 50
QuietFrames == 40

make_config(gap) ==
    [VadConfig_default EXCEPT !.min_speech_ms = 0, !.min_gap_ms = gap]

RunFrame ==
    /\ vadRun.fed < LoudFrames + QuietFrames
    /\ \E wav_ok \in BOOLEAN :
        LET rms == IF vadRun.fed < LoudFrames THEN 100 ELSE 5
            r == process_frame(vad, vad.config.frame_size, rms, wav_ok)
        IN  /\ vad' = r.vad
            /\ vadOut' = r.events
            /\ vadLast' = [op |-> "process_frame", rms |-> rms, pre |-> vad]
            /\ vadRun' = [fed |-> vadRun.fed + 1, log |-> vadRun.log \o r.events]
    /\ UNCHANGED <<sessionVars, appVars, scenarioVars, jobVars, pipeVars,
                   Rest_vadRun>>

InitRun ==
    /\ SessionInit /\ AppInit /\ ScenarioInit /\ JobInit
    /\ pipes = <<>>
    /\ closed = <<>>
    /\ handle = 0
    /\ cmd = [pc |-> "idle", gen |-> 0, then |-> ""]
    /\ produced = 0
    /\ received = <<>>
    /\ \E gap \in {0, VadConfig_default.min_gap_ms} :
        vad = VadProcessor_new(make_config(gap))
    /\ vadOut = <<>>
    /\ vadLast = [NoVadCall EXCEPT !.pre = vad]
    /\ LibInit

NextRun == RunFrame

SpecRun == InitRun /\ [][NextRun]_vars

(***************************************************************************)
(* SpecStt: an SttPipeline driven by its owner.  transcribe is an async fn  *)
(* on &mut self: between its first transition and the engine's answer no    *)
(* other method can run.  The channel history is followed up to             *)
(* MaxSttEvents events.                                                     *)
(***************************************************************************)
MaxSttEvents == 7

PipelineState == {"Idle", "Listening", "Capturing", "Processing"}
\* what engine.transcribe returns: Ok(transcript), Err with recoverable or not
EngineResults == {"ok", "recoverable", "fatal"}

StateChanged(new_state) == [type |-> "StateChanged", arg |-> new_state]
FinalTranscript == [type |-> "FinalTranscript", arg |-> "ok"]
SttErrorEvent(res) == [type |-> "Error", arg |-> res]

\* a transition that changes the state without telling the channel
transition_Silent(p, new_state) == [p EXCEPT !.state = new_state]

transition(p, new_state) ==
    IF p.state # new_state
    THEN [p EXCEPT !.state = new_state,
                   !.sent = Append(@, StateChanged(new_state))]
    ELSE p

SttIdle(room) == sttPipe.pc # "await" /\ Len(sttPipe.sent) + room <= MaxSttEvents

SttStartListening ==
    /\ SttIdle(1)
    /\ sttPipe' = [transition(sttPipe, "Listening") EXCEPT !.pc = "idle"]
    /\ Only_sttPipe

SttStartCapturing ==
    /\ SttIdle(1)
    /\ sttPipe' = [transition(sttPipe, "Capturing") EXCEPT !.pc = "idle"]
    /\ Only_sttPipe

SttStop ==
    /\ SttIdle(1)
    /\ sttPipe' = [transition(sttPipe, "Idle") EXCEPT !.pc = "idle"]
    /\ Only_sttPipe

\* transcribe up to engine.transcribe(audio, ctx).await
SttTranscribe ==
    /\ SttIdle(3)
    /\ sttPipe' = [transition(sttPipe, "Processing") EXCEPT !.pc = "await",
                                                    !.start = Len(sttPipe.sent),
                                                    !.res = ""]
    /\ Only_sttPipe

\* the engine answers and transcribe runs to its end
SttEngineReturn ==
    /\ sttPipe.pc = "await"
    /\ \E res \in EngineResults :
        LET told == [sttPipe EXCEPT !.sent = Append(@, IF res = "ok"
                                                   THEN FinalTranscript
                                                   ELSE SttErrorEvent(res))]
            closing == IF res = "fatal" THEN "Idle" ELSE "Listening"
        IN  sttPipe' = [transition(told, closing) EXCEPT !.pc = "done", !.res = res]
    /\ Only_sttPipe

InitStt == SessionInit /\ AppInit /\ ScenarioInit /\ JobInit /\ AudioInit

NextStt ==
    \/ SttStartListening
    \/ SttStartCapturing
    \/ SttStop
    \/ SttTranscribe
    \/ SttEngineReturn

SpecStt == InitStt /\ [][NextStt]_vars

(***************************************************************************)
(* SpecDict: the dictionary table under upsert_dictionary, the mode of the  *)
(* active session, and the entries that on_pipeline_transcript and          *)
(* on_transcript_done read for the post-processing.                         *)
(***************************************************************************)
MaxEntries == 2

DictModes == {"raw", "memo"}
Priorities == {0, 5}
\* rows of dictionary_entries without the pattern and the replacement
DictRows ==
    [scope : {"global", "mode"}, mode : {None} \cup {Some(m) : m \in DictModes},
     priority : Priorities, enabled : BOOLEAN]

\* INSERT ... ON CONFLICT(id) DO UPDATE
upsert_dictionary_entry(tbl, id, entry) ==
    [i \in DOMAIN tbl \cup {id} |-> IF i = id THEN entry ELSE tbl[i]]

\* WHERE enabled = 1 AND (scope = 'global' OR (scope = ?1 AND (mode IS NULL
\* OR mode = ?2))) ORDER BY priority DESC: the ids of the rows, in any of the
\* orders that the ORDER BY allows
get_enabled_dictionary_entries(tbl, scope, mode) ==
    LET sel == {id \in DOMAIN tbl :
                    /\ tbl[id].enabled
                    /\ \/ tbl[id].scope = "global"
                       \/ /\ tbl[id].scope = scope
                          /\ tbl[id].mode \in {None, Some(mode)}}
    IN  {q \in [1..Cardinality(sel) -> sel] :
            /\ \A i, j \in DOMAIN q : i # j => q[i] # q[j]
            /\ \A i, j \in DOMAIN q :
                i < j => tbl[q[i]].priority >= tbl[q[j]].priority}

\* the call made by on_pipeline_transcript and on_transcript_done
dict_entries(tbl, mode) == get_enabled_dictionary_entries(tbl, "global", mode)

DictUpsert ==
    /\ \E id \in 1..MaxEntries, entry \in DictRows :
        dict' = [dict EXCEPT !.table = upsert_dictionary_entry(@, id, entry),
                             !.op = "", !.got = <<>>]
    /\ Only_dict

\* start_session(mode) or set_mode(mode) on the active session
DictSetMode ==
    /\ \E mode \in DictModes :
        /\ mode # dict.mode
        /\ dict' = [dict EXCEPT !.mode = mode, !.op = "", !.got = <<>>]
    /\ Only_dict

DictOnPipelineTranscript ==
    /\ \E got \in dict_entries(dict.table, dict.mode) :
        dict' = [dict EXCEPT !.op = "on_pipeline_transcript", !.got = got]
    /\ Only_dict

DictOnTranscriptDone ==
    /\ \E got \in dict_entries(dict.table, dict.mode) :
        dict' = [dict EXCEPT !.op = "on_transcript_done", !.got = got]
    /\ Only_dict

InitDict == SessionInit /\ AppInit /\ ScenarioInit /\ JobInit /\ AudioInit

NextDict ==
    \/ DictUpsert
    \/ DictSetMode
    \/ DictOnPipelineTranscript
    \/ DictOnTranscriptDone

SpecDict == InitDict /\ [][NextDict]_vars

(***************************************************************************)
(* SpecPost: PostProcessor::process on texts that are sequences of          *)
(* characters, applied again to its own result.                             *)
(***************************************************************************)
MaxText == 3

\* half-width letters and space; the full-width letter a, U+FF41
Chars == {"a", "b", " "}
FullWidthA == "FF41"

\* every sequence over set of a length up to n
RECURSIVE SeqsUpTo(_, _)
SeqsUpTo(set, n) ==
    IF n = 0 THEN {<<>>}
    ELSE LET shorter == SeqsUpTo(set, n - 1)
         IN  shorter \cup {Append(q, c) : q \in shorter, c \in set}

PostTexts == SeqsUpTo(Chars, MaxText)
Patterns == SeqsUpTo({"a", "b"}, 2) \ {<<>>}
Replacements == {<<>>, <<"c">>, <<" ">>, <<FullWidthA>>, <<"b">>}
PostEntries == [pattern : Patterns, replacement : Replacements, enabled : BOOLEAN]
Dictionaries == SeqsUpTo(PostEntries, 2)

\* '\u{FF01}'..='\u{FF5E}' => ch - 0xFEE0; '\u{3000}' => ' '
fold_width(ch) == IF ch = FullWidthA THEN "a" ELSE ch

RECURSIVE compress_whitespace(_, _)
compress_whitespace(text, prev_space) ==
    IF text = <<>> THEN <<>>
    ELSE IF Head(text) = " "
    THEN (IF prev_space THEN <<>> ELSE <<" ">>)
         \o compress_whitespace(Tail(text), TRUE)
    ELSE <<Head(text)>> \o compress_whitespace(Tail(text), FALSE)

RECURSIVE trim_start(_)
trim_start(text) ==
    IF text # <<>> /\ Head(text) = " " THEN trim_start(Tail(text)) ELSE text

RECURSIVE trim_end(_)
trim_end(text) ==
    IF text # <<>> /\ text[Len(text)] = " "
    THEN trim_end(SubSeq(text, 1, Len(text) - 1))
    ELSE text

trim(text) == trim_end(trim_start(text))

PostProcessor_normalize(text) ==
    trim(compress_whitespace([i \in DOMAIN text |-> fold_width(text[i])], FALSE))

\* str::replace: the matches are found from the left and do not overlap
RECURSIVE str_replace(_, _, _)
str_replace(text, from, to) ==
    IF Len(text) < Len(from) \/ text = <<>> THEN text
    ELSE IF SubSeq(text, 1, Len(from)) = from
    THEN to \o str_replace(SubSeq(text, Len(from) + 1, Len(text)), from, to)
    ELSE <<Head(text)>> \o str_replace(Tail(text), from, to)

RECURSIVE PostProcessor_apply_dictionary(_, _)
PostProcessor_apply_dictionary(text, entries) ==
    IF entries = <<>> THEN text
    ELSE LET entry == Head(entries)
             replaced == IF entry.enabled
                         THEN str_replace(text, entry.pattern, entry.replacement)
                         ELSE text
         IN  PostProcessor_apply_dictionary(replaced, Tail(entries))

post_process(text, entries) ==
    PostProcessor_apply_dictionary(PostProcessor_normalize(text), entries)

PostProcess ==
    /\ Len(pp.out) < 2
    /\ pp' = [pp EXCEPT !.out = Append(@, post_process(
                            IF pp.out = <<>> THEN pp.text ELSE pp.out[Len(pp.out)],
                            pp.entries))]
    /\ Only_pp

InitPost ==
    /\ SessionInit /\ AppInit /\ ScenarioInit /\ JobInit
    /\ pipes = <<>>
    /\ closed = <<>>
    /\ handle = 0
    /\ cmd = [pc |-> "idle", gen |-> 0, then |-> ""]
    /\ produced = 0
    /\ received = <<>>
    /\ vad = VadProcessor_new(VadConfig_default)
    /\ vadOut = <<>>
    /\ vadLast = NoVadCall
    /\ RestInit_pp
    /\ \E text \in PostTexts, entries \in Dictionaries :
        pp = [text |-> text, entries |-> entries, out |-> <<>>]

NextPost == PostProcess

SpecPost == InitPost /\ [][NextPost]_vars

(***************************************************************************)
(* SpecHist: the sessions table under insert_session with any created_at,   *)
(* and list_history with any limit and cursor.                              *)
(***************************************************************************)
MaxRows == 3
MaxStamp == 3

\* limit : u32.  u32::MAX is represented by the largest integer of the
\* checker: all that matters of it is that it exceeds every row count and
\* that adding 1 to it overflows
U32Max == 2147483647
Limits == {0, 1, 2, U32Max}
Cursors == {None} \cup {Some(t) : t \in 1..MaxStamp}

Min(a, b) == IF a < b THEN a ELSE b

\* HistoryPage; panicked: the call did not return (overflow check of a debug
\* build)
HistoryPage(items, next_cursor) ==
    [items |-> items, next_cursor |-> next_cursor, panicked |-> FALSE]
Panicked == [items |-> <<>>, next_cursor |-> None, panicked |-> TRUE]

\* SELECT ... [WHERE created_at < ?1] ORDER BY created_at DESC LIMIT ?2: the
\* row numbers, in any of the orders that the ORDER BY allows
select_sessions(tbl, cursor, lim) ==
    LET sel == {i \in DOMAIN tbl : cursor = None \/ tbl[i] < cursor[1]}
        orders == {q \in [1..Cardinality(sel) -> sel] :
                      /\ \A i, j \in DOMAIN q : i # j => q[i] # q[j]
                      /\ \A i, j \in DOMAIN q : i < j => tbl[q[i]] >= tbl[q[j]]}
    IN  {SubSeq(q, 1, Min(lim, Len(q))) : q \in orders}

\* limit + 1 is computed in u32: a release build wraps, a debug build panics
list_history(tbl, limit, cursor) ==
    LET pages == {LET has_next == Len(got) > limit
                      items == SubSeq(got, 1, Min(limit, Len(got)))
                  IN  HistoryPage(items,
                                  IF has_next /\ items # <<>>
                                  THEN Some(tbl[items[Len(items)]])
                                  ELSE None) :
                     got \in select_sessions(tbl, cursor,
                                             IF limit = U32Max THEN 0
                                             ELSE limit + 1)}
    IN  IF limit = U32Max THEN pages \cup {Panicked} ELSE pages

HistInsertSession ==
    /\ Len(hist.table) < MaxRows
    /\ \E created_at \in 1..MaxStamp :
        hist' = [hist EXCEPT !.table = Append(@, created_at), !.page = <<>>]
    /\ Only_hist

HistListHistory ==
    /\ \E limit \in Limits, cursor \in Cursors :
        \E page \in list_history(hist.table, limit, cursor) :
            hist' = [hist EXCEPT !.limit = limit, !.cursor = cursor,
                                 !.page = <<page>>]
    /\ Only_hist

InitHist == SessionInit /\ AppInit /\ ScenarioInit /\ JobInit /\ AudioInit

NextHist ==
    \/ HistInsertSession
    \/ HistListHistory

SpecHist == InitHist /\ [][NextHist]_vars

(***************************************************************************)
(* SpecClean: session starts and stops, transcripts for the active session  *)
(* and cleanup_old_data, with the clock in days.  The schema declares the   *)
(* foreign key of segments.session_id and the code sets no PRAGMA, so the   *)
(* key is enforced or not as the SQLite library was built (store.fk).       *)
(***************************************************************************)
MaxDay == 2
MaxStoreSessions == 2
MaxStoreSegments == 2

TtlDays == {0, 1, 2}

\* DELETE FROM segments WHERE created_at < ?1
delete_old_segments(segs, before_date) ==
    {seg \in segs : ~(seg.created_at < before_date)}

\* DELETE FROM sessions WHERE created_at < ?1
\*   AND session_id NOT IN (SELECT DISTINCT session_id FROM segments)
delete_old_sessions(sess, segs, before_date) ==
    {row \in sess :
        ~(/\ row.created_at < before_date
          /\ row.session_id \notin {seg.session_id : seg \in segs})}

\* INSERT INTO segments: fails on a build that enforces the foreign key when
\* the session row is missing
insert_segment_at(st, session_id, now) ==
    IF st.fk /\ session_id \notin {row.session_id : row \in st.sessions}
    THEN st
    ELSE [st EXCEPT !.segments =
            @ \cup {[segment_id |-> Cardinality(@) + 1, session_id |-> session_id,
                     created_at |-> now]}]

\* UPDATE sessions SET state = ?1 WHERE session_id = ?3
store_update_state(sess, session_id, state) ==
    {IF row.session_id = session_id THEN [row EXCEPT !.state = state] ELSE row :
        row \in sess}

StoreStartSession ==
    /\ store.ids < MaxStoreSessions
    /\ store' = [store EXCEPT
                    !.ids = @ + 1,
                    !.active = store.ids + 1,
                    !.state = "idle",
                    !.sessions = @ \cup {[session_id |-> store.ids + 1,
                                          state |-> "idle",
                                          created_at |-> store.now]}]
    /\ Only_store

StoreStopSession ==
    /\ store.active # 0
    /\ store' = [store EXCEPT
                    !.active = 0,
                    !.state = "",
                    !.sessions = store_update_state(@, store.active, "idle")]
    /\ Only_store

\* on_pipeline_transcript up to insert_segment
StoreOnPipelineTranscript ==
    /\ store.active # 0
    /\ Cardinality(store.segments) < MaxStoreSegments
    /\ store' = insert_segment_at(store, store.active, store.now)
    /\ Only_store

StoreCleanupOldData ==
    /\ \E ttl_days \in TtlDays :
        IF ttl_days = 0 THEN UNCHANGED store
        ELSE LET cutoff == store.now - ttl_days
                 segs == delete_old_segments(store.segments, cutoff)
             IN  store' = [store EXCEPT
                    !.segments = segs,
                    !.sessions = delete_old_sessions(@, segs, cutoff)]
    /\ Only_store

\* a day passes
StoreDay ==
    /\ store.now < MaxDay
    /\ store' = [store EXCEPT !.now = @ + 1]
    /\ Only_store

InitClean ==
    /\ SessionInit /\ AppInit /\ ScenarioInit /\ JobInit
    /\ pipes = <<>>
    /\ closed = <<>>
    /\ handle = 0
    /\ cmd = [pc |-> "idle", gen |-> 0, then |-> ""]
    /\ produced = 0
    /\ received = <<>>
    /\ vad = VadProcessor_new(VadConfig_default)
    /\ vadOut = <<>>
    /\ vadLast = NoVadCall
    /\ RestInit_store
    /\ \E fk \in BOOLEAN :
        store = [sessions |-> {}, segments |-> {}, active |-> 0, state |-> "",
                 ids |-> 0, now |-> 0, fk |-> fk]

NextClean ==
    \/ StoreStartSession
    \/ StoreStopSession
    \/ StoreOnPipelineTranscript
    \/ StoreCleanupOldData
    \/ StoreDay

SpecClean == InitClean /\ [][NextClean]_vars

\* SpecPersist: SpecClean with the commands that move the active session
\* between Idle and Recording and write its state to its row
StoreToggleRecording ==
    /\ store.active # 0
    /\ store.state = "idle"
    /\ store' = [store EXCEPT
                    !.state = "recording",
                    !.sessions = store_update_state(@, store.active, "recording")]
    /\ Only_store

StorePauseRecording ==
    /\ store.active # 0
    /\ store.state = "recording"
    /\ store' = [store EXCEPT
                    !.state = "idle",
                    !.sessions = store_update_state(@, store.active, "idle")]
    /\ Only_store

NextPersist ==
    \/ StoreStartSession
    \/ StoreStopSession
    \/ StoreToggleRecording
    \/ StorePauseRecording
    \/ StoreOnPipelineTranscript
    \/ StoreCleanupOldData
    \/ StoreDay

SpecPersist == InitClean /\ [][NextPersist]_vars

(***************************************************************************)
(* SpecRing: RingAudioProducer::push on the capture thread and              *)
(* RingAudioConsumer::pop on the processing thread.  push_slice and         *)
(* pop_slice are those of the single-producer single-consumer ring of the   *)
(* ringbuf crate: each side loads the other side's index, copies, and then  *)
(* publishes its own index; the indices run modulo twice the capacity.      *)
(* The samples offered are numbered 1, 2, ... in the order of offering.     *)
(***************************************************************************)
Occupied(read, write) ==
    (write + 2 * RingCapacity - read) % (2 * RingCapacity)

\* push_slice that takes the whole slice whatever the free space
push_count_Overwrite(len, free) == len

\* the number of samples push_slice takes from a slice of len samples
push_count(len, free) == Min(len, free)

\* push up to the load of the consumer's index
RingPushBegin ==
    /\ ring.prod.pc = "idle"
    /\ \E len \in 1..MaxSlice :
        /\ ring.offered + len <= MaxOffered
        /\ LET free == RingCapacity - Occupied(ring.read, ring.write)
           IN  ring' = [ring EXCEPT !.prod = [pc |-> "copy", len |-> len,
                                              free |-> free,
                                              n |-> push_count(len, free)]]
    /\ Only_ring

\* the copy of the accepted prefix into the vacant slots
RingPushCopy ==
    /\ ring.prod.pc = "copy"
    /\ ring' = [ring EXCEPT
            !.buf = [i \in DOMAIN @ |->
                        IF \E k \in 0..(ring.prod.n - 1) :
                              i = (ring.write + k) % RingCapacity
                        THEN ring.offered + 1
                             + (CHOOSE k \in 0..(ring.prod.n - 1) :
                                    i = (ring.write + k) % RingCapacity)
                        ELSE @[i]],
            !.prod.pc = "publish"]
    /\ Only_ring

\* the store of the producer's index; push returns n
RingPushPublish ==
    /\ ring.prod.pc = "publish"
    /\ ring' = [ring EXCEPT
            !.write = (@ + ring.prod.n) % (2 * RingCapacity),
            !.accepted = @ \o [k \in 1..ring.prod.n |-> ring.offered + k],
            !.offered = @ + ring.prod.len,
            !.prod.pc = "idle"]
    /\ Only_ring

\* pop up to the load of the producer's index
RingPopBegin ==
    /\ ring.cons.pc = "idle"
    /\ Len(ring.popped) < MaxOffered
    /\ \E len \in 1..MaxSlice :
        LET avail == Occupied(ring.read, ring.write)
        IN  ring' = [ring EXCEPT !.cons = [pc |-> "copy", len |-> len,
                                           avail |-> avail,
                                           n |-> Min(len, avail)]]
    /\ Only_ring

\* the copy of the occupied slots into buf
RingPopCopy ==
    /\ ring.cons.pc = "copy"
    /\ ring' = [ring EXCEPT
            !.popped = @ \o [k \in 1..ring.cons.n |->
                                ring.buf[(ring.read + k - 1) % RingCapacity]],
            !.cons.pc = "publish"]
    /\ Only_ring

\* the store of the consumer's index; pop returns n
RingPopPublish ==
    /\ ring.cons.pc = "publish"
    /\ ring' = [ring EXCEPT !.read = (@ + ring.cons.n) % (2 * RingCapacity),
                            !.cons.pc = "idle"]
    /\ Only_ring

InitRing == SessionInit /\ AppInit /\ ScenarioInit /\ JobInit /\ AudioInit

NextRing ==
    \/ RingPushBegin
    \/ RingPushCopy
    \/ RingPushPublish
    \/ RingPopBegin
    \/ RingPopCopy
    \/ RingPopPublish

SpecRing == InitRing /\ [][NextRing]_vars

(***************************************************************************)
(* SpecCapture: the input callback that AudioCapture::start builds.  A      *)
(* frame is taken by whether is_zero_frame holds of it.  The timeout is     *)
(* held in milliseconds; run and fired record the length of the current run *)
(* of zero frames and the NoInput events sent during it.                    *)
(***************************************************************************)
MaxCaptureFrames == 160
target_sample_rate == 16000
frame_size == 320

\* no_input_timeout_secs of CaptureConfig, in milliseconds: the default, and
\* values of one frame and a half, two frames and a half, and half a frame
TimeoutsMs == {3000, 30, 50, 10}

\* (no_input_timeout_secs * target_sample_rate / frame_size) as u64
no_input_frames_threshold(timeout_ms) ==
    (timeout_ms * target_sample_rate) \div (1000 * frame_size)

\* one frame drained from the accumulator by the callback
CaptureFrame ==
    /\ capt.frames < MaxCaptureFrames
    /\ \E is_zero_frame \in BOOLEAN :
        IF is_zero_frame
        THEN LET count == capt.zero + 1
             IN  capt' = [capt EXCEPT
                     !.frames = @ + 1,
                     !.zero = count,
                     !.run = @ + 1,
                     !.fired = IF count = capt.threshold THEN @ + 1 ELSE @]
        ELSE capt' = [capt EXCEPT !.frames = @ + 1, !.zero = 0,
                                  !.run = 0, !.fired = 0]
    /\ Only_capt

\* start: the threshold is computed and the counters are stored as 0
InitCapture ==
    /\ SessionInit /\ AppInit /\ ScenarioInit /\ JobInit
    /\ pipes = <<>>
    /\ closed = <<>>
    /\ handle = 0
    /\ cmd = [pc |-> "idle", gen |-> 0, then |-> ""]
    /\ produced = 0
    /\ received = <<>>
    /\ vad = VadProcessor_new(VadConfig_default)
    /\ vadOut = <<>>
    /\ vadLast = NoVadCall
    /\ RestInit_capt
    /\ \E timeout_ms \in TimeoutsMs :
        capt = [timeout_ms |-> timeout_ms,
                threshold |-> no_input_frames_threshold(timeout_ms),
                frames |-> 0, zero |-> 0, run |-> 0, fired |-> 0]

NextCapture == CaptureFrame

SpecCapture == InitCapture /\ [][NextCapture]_vars

(***************************************************************************)
(* SpecToggle: the toggle_recording command (commands.rs) on the command    *)
(* thread, with start_session and stop_session between its runs and the     *)
(* event forwarder beside it.  The command's calls on the AppService are    *)
(* the steps of SpecFwd; result[U] is "none" from the command's entry or    *)
(* its last call's return until its next call begins.                       *)
(***************************************************************************)
SESSION_STATE_CHANGED(new_state) ==
    [name |-> "session_state_changed", new_state |-> new_state, code |-> ""]
ERROR(code) == [name |-> "error", new_state |-> "", code |-> code]

\* the command's own steps leave the service as it is, but for result[U]
TglFrame ==
    UNCHANGED <<sessionVars, clock, nextId, rows, segments, clipboard, metrics,
                pipeline, events, sessLock, storeLock, pc, loc, effect, written,
                scenarioVars, jobVars, pipeVars, vadVars, Rest_tgl>>

Returned(t) == pc[t] = "idle" /\ result[t] \notin {NoRes, "pending"}
NextCall == result' = [result EXCEPT ![U] = NoRes]

\* let current_state = service.current_state();
TglEnter ==
    /\ tgl.pc = "idle"
    /\ pc[U] = "idle"
    /\ sessLock = ""
    /\ tgl' = [pc |-> IF current_state = "recording" THEN "pause" ELSE "toggle",
               moved |-> FALSE, failed |-> FALSE, emitted |-> <<>>, ret |-> ""]
    /\ NextCall
    /\ TglFrame

\* recording: service.pause_recording()?, then the event
TglPauseCall == tgl.pc = "pause" /\ result[U] = NoRes /\ AppPauseRecording

TglPauseReturn ==
    /\ tgl.pc = "pause"
    /\ Returned(U)
    /\ tgl' = [tgl EXCEPT
            !.pc = "returned",
            !.emitted = IF result[U] = "ok"
                        THEN Append(@, SESSION_STATE_CHANGED(current_state))
                        ELSE @,
            !.ret = result[U]]
    /\ UNCHANGED result
    /\ TglFrame

\* otherwise: service.toggle_recording()?, then the event
TglToggleCall == tgl.pc = "toggle" /\ result[U] = NoRes /\ AppToggleRecording

\* transition.new_state is the state of the session at the return: the
\* session manager is changed by the commands only, and they run one by one
TglToggleReturn ==
    /\ tgl.pc = "toggle"
    /\ Returned(U)
    /\ IF result[U] = "ok"
       THEN IF current_state = "recording"
            THEN /\ tgl' = [tgl EXCEPT
                        !.pc = "start", !.moved = TRUE,
                        !.emitted = Append(@, SESSION_STATE_CHANGED(current_state))]
                 /\ NextCall
            ELSE /\ tgl' = [tgl EXCEPT
                        !.pc = "returned", !.ret = "ok",
                        !.emitted = Append(@, SESSION_STATE_CHANGED(current_state))]
                 /\ UNCHANGED result
       ELSE /\ tgl' = [tgl EXCEPT !.pc = "returned", !.ret = result[U]]
            /\ UNCHANGED result
    /\ TglFrame

\* match service.start_pipeline()
TglStartCall == tgl.pc = "start" /\ result[U] = NoRes /\ AppStartPipeline

\* Ok(event_rx): the forwarder is spawned; Err(e): back to Idle
TglStartReturn ==
    /\ tgl.pc = "start"
    /\ Returned(U)
    /\ IF result[U] = "ok"
       THEN /\ tgl' = [tgl EXCEPT !.pc = "returned", !.ret = "ok"]
            /\ UNCHANGED result
       ELSE /\ tgl' = [tgl EXCEPT !.pc = "revert", !.failed = TRUE]
            /\ NextCall
    /\ TglFrame

\* if let Ok(revert) = service.pause_recording()
TglRevertCall == tgl.pc = "revert" /\ result[U] = NoRes /\ AppPauseRecording

\* the event of the revert when it is Ok, the ERROR event, return Err(e)
TglRevertReturn ==
    /\ tgl.pc = "revert"
    /\ Returned(U)
    /\ tgl' = [tgl EXCEPT
            !.pc = "returned",
            !.emitted = (IF result[U] = "ok"
                         THEN Append(@, SESSION_STATE_CHANGED(current_state))
                         ELSE @) \o <<ERROR("E_DEVICE")>>,
            !.ret = "E_DEVICE"]
    /\ UNCHANGED result
    /\ TglFrame

\* the command thread takes its next command
TglLeave ==
    /\ tgl.pc = "returned"
    /\ tgl' = [tgl EXCEPT !.pc = "idle"]
    /\ UNCHANGED result
    /\ TglFrame

TglStartSession == tgl.pc = "idle" /\ AppStartSession
TglStopSession == tgl.pc = "idle" /\ AppStopSession

InitToggle == SessionInit /\ AppInit /\ ScenarioInit /\ JobInit /\ AudioInit

NextToggle ==
    \/ TglEnter
    \/ TglPauseCall
    \/ TglPauseReturn
    \/ TglToggleCall
    \/ TglToggleReturn
    \/ TglStartCall
    \/ TglStartReturn
    \/ TglRevertCall
    \/ TglRevertReturn
    \/ TglLeave
    \/ TglStartSession
    \/ TglStopSession
    \/ AppStartSessionMgr
    \/ AppStartSessionStore
    \/ AppStopSessionMgr
    \/ AppStopSessionStore
    \/ AppToggleRecordingMgr
    \/ AppToggleRecordingStore
    \/ AppPauseRecordingMgr
    \/ AppPauseRecordingStore
    \/ AppOnPipelineTranscript
    \/ AppOnPipelineTranscriptStore
    \/ AppOnPipelineTranscriptMgr
    \/ PipelineEmit
    \/ ClockStep

SpecToggle == InitToggle /\ [][NextToggle]_vars

(***************************************************************************)
(* SpecErr: SpecToggle with the PipelineEvent::Error events of a running    *)
(* pipeline (a capture that stops, an STT call that fails) and the arm of   *)
(* the event forwarder that handles them.                                   *)
(***************************************************************************)
MaxErrors == 2

\* the worker sends PipelineEvent::Error(msg) on the pipeline's channel
PipelineEmitError ==
    /\ pipeline
    /\ perr.sent < MaxErrors
    /\ perr' = [perr EXCEPT !.queued = @ + 1, !.sent = @ + 1]
    /\ Only_perr

\* PipelineEvent::Error(msg) => emit_event(ERROR, code E_PIPELINE,
\* recoverable: true, session_id: None): no call on the AppService
ForwardError ==
    /\ perr.queued > 0
    /\ pc[F] = "idle"
    /\ perr' = [perr EXCEPT
            !.queued = @ - 1,
            !.last = [before |-> current_state, after |-> current_state,
                      emitted |-> <<ERROR("E_PIPELINE")>>]]
    /\ Only_perr

NextErr ==
    \/ TglEnter
    \/ TglPauseCall
    \/ TglPauseReturn
    \/ TglToggleCall
    \/ TglToggleReturn
    \/ TglStartCall
    \/ TglStartReturn
    \/ TglRevertCall
    \/ TglRevertReturn
    \/ TglLeave
    \/ TglStartSession
    \/ TglStopSession
    \/ AppStartSessionMgr
    \/ AppStartSessionStore
    \/ AppStopSessionMgr
    \/ AppStopSessionStore
    \/ AppToggleRecordingMgr
    \/ AppToggleRecordingStore
    \/ AppPauseRecordingMgr
    \/ AppPauseRecordingStore
    \/ PipelineEmitError
    \/ ForwardError

SpecErr == InitToggle /\ [][NextErr]_vars

(***************************************************************************)
(* SpecRewrite: the rewrite_last command (commands.rs) after recording and  *)
(* transcript, on the command thread.                                       *)
(***************************************************************************)
RewriteModes == {"memo", "tech"}

\* format!("[rewritten:{}] {}", serde_json::to_value(mode), raw_text)
rewritten_as(mode, raw_text) == "[rewritten:\"" \o mode \o "\"] " \o raw_text

\* get_last_segment_for_rewrite()?, then on_rewrite_done(&segment_id, ..)
CmdRewriteLast ==
    \E mode \in RewriteModes :
        /\ sessLock = ""
        /\ storeLock = ""
        /\ LET last == IF active = None THEN None
                       ELSE last_segment(segments, active[1].session_id)
           IN  IF last = None
               THEN /\ pc[U] = "idle"
                    /\ result' = [result EXCEPT ![U] = E_INTERNAL]
                    /\ UNCHANGED <<active, clock, nextId, dataVars, events,
                                   sessLock, storeLock, pc, loc>>
                    /\ NoTouch(U)
                    /\ AppFrame
               ELSE on_rewrite_done(last[1].segment_id,
                                    rewritten_as(mode, last[1].raw_text))

NextRewrite ==
    \/ AppStartSession
    \/ AppStartSessionMgr
    \/ AppStartSessionStore
    \/ AppToggleRecording
    \/ AppToggleRecordingMgr
    \/ AppToggleRecordingStore
    \/ AppOnTranscriptDone
    \/ AppOnTranscriptDoneStore
    \/ AppOnTranscriptDoneMode
    \/ AppOnTranscriptDoneMgr
    \/ CmdRewriteLast
    \/ AppOnRewriteDoneStore
    \/ AppOnRewriteDoneMgr

SpecRewrite == InitApp /\ [][NextRewrite]_vars

(***************************************************************************)
(* SpecVadSpeech: SpecVad over configurations whose min_speech_ms is 0,     *)
(* half a frame, or three frames.                                           *)
(***************************************************************************)
SpeechConfigs ==
    {[VadConfig_default EXCEPT !.speech_end_silence_ms = 40,
                               !.max_segment_ms = mx,
                               !.min_segment_ms = 30,
                               !.min_speech_ms = sp,
                               !.min_gap_ms = 0] :
        mx \in {80, 30000}, sp \in {0, 10, 60}}

InitVadSpeech ==
    /\ SessionInit /\ AppInit /\ ScenarioInit /\ JobInit
    /\ pipes = <<>>
    /\ closed = <<>>
    /\ handle = 0
    /\ cmd = [pc |-> "idle", gen |-> 0, then |-> ""]
    /\ produced = 0
    /\ received = <<>>
    /\ \E config \in SpeechConfigs : vad = VadProcessor_new(config)
    /\ vadOut = <<>>
    /\ vadLast = [NoVadCall EXCEPT !.pre = vad]
    /\ LibInit

NextVadSpeech ==
    \/ VadProcessFrame
    \/ VadFlush
    \/ VadReset

SpecVadSpeech == InitVadSpeech /\ [][NextVadSpeech]_vars

(***************************************************************************)
(* SpecWalk: a caller pages through the sessions table: list_history with   *)
(* no cursor first, then with the next_cursor of the page before, until     *)
(* next_cursor is None.  The table does not change during a walk.           *)
(***************************************************************************)
WalkLimits == {1, 2}

\* one call of list_history of the walk, with the cursor the walk holds
WalkPage(at) ==
    /\ walk.pc = at
    /\ \E page \in list_history(hist.table, walk.limit, walk.cursor) :
        walk' = [walk EXCEPT !.pc = IF page.next_cursor = None THEN "done"
                                    ELSE "paging",
                             !.cursor = page.next_cursor,
                             !.seen = @ \o page.items]
    /\ Only_walk

\* a walk starts when none is under way
WalkBegin ==
    /\ walk.pc \in {"idle", "done"}
    /\ \E limit \in WalkLimits :
        walk' = [pc |-> "first", limit |-> limit, cursor |-> None, seen |-> <<>>]
    /\ Only_walk

WalkFirstPage == WalkPage("first")

WalkNextPage == WalkPage("paging")

WalkInsertSession ==
    /\ walk.pc = "idle"
    /\ HistInsertSession

NextWalk ==
    \/ WalkInsertSession
    \/ WalkBegin
    \/ WalkFirstPage
    \/ WalkNextPage

SpecWalk == InitHist /\ [][NextWalk]_vars

(***************************************************************************)
(* SpecStream: SpecVad without reset, with the emitted events followed:     *)
(* process_frame and flush in any order, and for the events returned so far *)
(* the number of SpeechStart since the finalization before (starts, and     *)
(* at_final for its value when the last SegmentReady or SegmentDiscarded    *)
(* was returned) and the number of finalizations since the last SpeechStart *)
(* (finals).  The counts stop at MaxTally.                                  *)
(***************************************************************************)
MaxTally == 2

StreamEvent(s, ev) ==
    CASE ev.type = "SpeechStart" ->
            [s EXCEPT !.starts = Min(@ + 1, MaxTally), !.started = TRUE,
                      !.finals = 0]
      [] ev.type \in {"SegmentReady", "SegmentDiscarded"} ->
            [s EXCEPT !.starts = 0, !.at_final = s.starts,
                      !.finals = IF s.started THEN Min(@ + 1, MaxTally) ELSE 0]
      [] OTHER -> s

RECURSIVE StreamEvents(_, _)
StreamEvents(s, evs) ==
    IF evs = <<>> THEN s
    ELSE StreamEvents(StreamEvent(s, Head(evs)), Tail(evs))

StreamCall(op, rms, r) ==
    /\ vad' = r.vad
    /\ vadOut' = r.events
    /\ vadLast' = [op |-> op, rms |-> rms, pre |-> vad]
    /\ stream' = [StreamEvents(stream, r.events) EXCEPT !.pending_flush =
                    \/ @
                    \/ op = "flush" /\ vad.state = "PendingSpeech" /\ r.events # <<>>]
    /\ UNCHANGED <<sessionVars, appVars, scenarioVars, jobVars, pipeVars,
                   Rest_stream>>

StreamProcessFrame ==
    \E rms \in Rms, wav_ok \in BOOLEAN :
        /\ vad.segment_frame_count < MaxSegFrames
        /\ StreamCall("process_frame", rms,
                      process_frame(vad, vad.config.frame_size, rms, wav_ok))

StreamFlush ==
    \E wav_ok \in BOOLEAN : StreamCall("flush", 0, flush(vad, wav_ok))

NextStream ==
    \/ StreamProcessFrame
    \/ StreamFlush

SpecStream == InitVad /\ [][NextStream]_vars

(***************************************************************************)
(* Claims on delivery                                                      *)
(***************************************************************************)
\* C11: over any sequence of deliver and deliver_last commands the text of a
\* given segment is written to the delivery target at most once, and
\* segments_delivered never exceeds the number of segments created.
C11_DeliverAtMostOnce ==
    /\ \A i, j \in DOMAIN written : i # j => written[i] # written[j]
    /\ metrics.segments_delivered <= Len(segments)

(***************************************************************************)
(* Claims on the audio pipeline                                            *)
(***************************************************************************)
\* C12: every final transcript produced by the pipeline worker, the one of
\* the tail segment produced during a stop by pause_recording or stop_session
\* included, reaches on_pipeline_transcript and is persisted as a segment:
\* no call of on_pipeline_transcript by a forwarder fails.
C12_NoTranscriptDropped ==
    \A i \in DOMAIN received : received[i].ok

\* C13: within a session the final transcripts reach the application
\* service, and their segments are persisted, in the order in which their
\* audio segments were finalized.
C13_TranscriptOrder ==
    \A i, j \in DOMAIN received :
        (/\ i < j
         /\ received[i].ok
         /\ received[j].ok
         /\ received[i].session_id = received[j].session_id)
        => received[i].id < received[j].id

\* C14: a worker that has exited after stop was signalled has received every
\* frame that was sent on its sample channel before the signal, and has
\* transcribed what its segment buffer held.
C14_DrainOnStop ==
    \A g \in DOMAIN pipes :
        (pipes[g].worker = "exit" /\ pipes[g].stop_flag)
        => (pipes[g].fed >= pipes[g].owed /\ pipes[g].segment_buffer = 0)

\* C15: once AudioPipeline::stop has set the stop flag of a pipeline, its
\* worker eventually exits and the stop (the join) returns.
C15_StopTerminates ==
    \A g \in 1..MaxPipelines :
        (g \in DOMAIN pipes /\ pipes[g].stop_flag)
        ~> (/\ g \in DOMAIN pipes
            /\ pipes[g].worker = "exit"
            /\ ~(cmd.pc = "join" /\ cmd.gen = g))

\* a pipeline that received frames was stopped, its worker has exited and
\* the stopping command has returned
C15_Witness ==
    \E g \in DOMAIN pipes :
        /\ pipes[g].stop_flag
        /\ pipes[g].fed > 0
        /\ pipes[g].worker = "exit"
        /\ cmd.pc = "idle"

(***************************************************************************)
(* Claims on the VAD segmenter                                             *)
(***************************************************************************)
\* positions of the finalization events among the events evs
Finals(evs) ==
    {i \in DOMAIN evs : evs[i].type \in {"SegmentReady", "SegmentDiscarded"}}

\* C16: a speech start that is followed by a frame below the end threshold
\* before min_speech_ms worth of frames have accumulated is dropped: no call
\* that leaves the VAD in PendingSpeech emits an event, and a frame with
\* rms < speech_end_threshold in PendingSpeech emits nothing and puts the
\* VAD back in Silence with an empty pending buffer.
C16_NoiseIgnored ==
    /\ vad.state = "PendingSpeech" => vadOut = <<>>
    /\ (/\ vadLast.op = "process_frame"
        /\ vadLast.pre.state = "PendingSpeech"
        /\ vadLast.rms < vad.config.speech_end_threshold)
       => (/\ vadOut = <<>>
           /\ vad.state = "Silence"
           /\ vad.pending_samples = 0
           /\ vad.pending_frame_count = 0)

\* a quiet frame arrived in PendingSpeech before min_speech_frames frames
C16_Witness ==
    /\ vadLast.op = "process_frame"
    /\ vadLast.pre.state = "PendingSpeech"
    /\ vadLast.rms < vad.config.speech_end_threshold
    /\ vadLast.pre.pending_frame_count + 1 < vadLast.pre.min_speech_frames
    /\ vad.state = "Silence"

\* C17: a Speaking run never goes past max_frames frames; the frame that
\* brings it to max_frames emits exactly SegmentForceCut followed by one
\* finalization event, also when the same frame reaches the silence
\* timeout; SegmentForceCut is emitted by no other call.
C17_ForceCutOnce ==
    /\ vad.state = "Speaking" => vad.segment_frame_count < vad.max_frames
    /\ (/\ vadLast.op = "process_frame"
        /\ vadLast.pre.state = "Speaking"
        /\ vadLast.pre.segment_frame_count + 1 >= vadLast.pre.max_frames)
       => (/\ Len(vadOut) = 2
           /\ vadOut[1] = SegmentForceCut
           /\ Finals(vadOut) = {2}
           /\ vad.state # "Speaking")
    /\ (\E i \in DOMAIN vadOut : vadOut[i] = SegmentForceCut)
       => (/\ vadLast.op = "process_frame"
           /\ vadLast.pre.state = "Speaking"
           /\ vadLast.pre.segment_frame_count + 1 >= vadLast.pre.max_frames)

\* one frame reached the maximum length and the silence timeout
C17_Witness ==
    /\ vadLast.op = "process_frame"
    /\ vadLast.pre.state = "Speaking"
    /\ vadLast.pre.segment_frame_count + 1 >= vadLast.pre.max_frames
    /\ vadLast.rms < vad.config.speech_end_threshold
    /\ vadLast.pre.silence_frame_count + 1 >= vadLast.pre.silence_frames_needed
    /\ Len(vadOut) = 2

\* C18: after every finalization with min_gap_ms > 0 the VAD is in Cooldown,
\* where a frame emits no event and starts no speech whatever its rms.
C18_CooldownAfterFinalization ==
    /\ (Finals(vadOut) # {} /\ vad.config.min_gap_ms > 0)
       => vad.state = "Cooldown"
    /\ (vadLast.op = "process_frame" /\ vadLast.pre.state = "Cooldown")
       => (vadOut = <<>> /\ vad.state \in {"Cooldown", "Silence"})

\* the samples of the segment finalized by the last call
FinalizedSamples ==
    IF vadLast.op = "flush"
    THEN IF vadLast.pre.state = "PendingSpeech"
         THEN vadLast.pre.pending_samples
         ELSE vadLast.pre.segment_samples
    ELSE vadLast.pre.segment_samples + vadLast.pre.config.frame_size

\* C19: a finalization emits exactly one finalization event, carrying
\* duration_ms = floor(samples * 1000 / sample_rate): SegmentDiscarded when
\* duration_ms < min_segment_ms, else SegmentReady; afterwards the segment
\* buffer and the frame and silence counters are zero.
C19_OneFinalizationEvent ==
    Finals(vadOut) # {} =>
        LET d == (FinalizedSamples * 1000) \div vad.config.sample_rate
            e == vadOut[Len(vadOut)]
        IN  /\ Finals(vadOut) = {Len(vadOut)}
            /\ e.duration_ms = d
            /\ e.type = IF d < vad.config.min_segment_ms
                        THEN "SegmentDiscarded" ELSE "SegmentReady"
            /\ vad.segment_samples = 0
            /\ vad.segment_frame_count = 0
            /\ vad.silence_frame_count = 0

\* C20: flush in Silence or Cooldown emits nothing and changes nothing; in
\* Speaking it finalizes the segment buffer, in PendingSpeech the pending
\* buffer; after a flush the VAD is in neither Speaking nor PendingSpeech,
\* holds no samples, and a second flush emits nothing and changes nothing.
C20_Flush ==
    vadLast.op = "flush" =>
        /\ vadLast.pre.state \in {"Silence", "Cooldown"}
           => (vadOut = <<>> /\ vad = vadLast.pre)
        /\ vadLast.pre.state \in {"Speaking", "PendingSpeech"}
           => (/\ Len(vadOut) = 1
               /\ Finals(vadOut) = {1}
               /\ vadOut[1].type = "SegmentReady"
                  => vadOut[1].samples = FinalizedSamples)
        /\ vad.state \notin {"Speaking", "PendingSpeech"}
        /\ vad.segment_samples = 0
        /\ vad.pending_samples = 0
        /\ \A wav_ok \in BOOLEAN : flush(vad, wav_ok) = VadResult(vad, <<>>)

\* a flush in PendingSpeech produced a segment
C20_Witness ==
    /\ vadLast.op = "flush"
    /\ vadLast.pre.state = "PendingSpeech"
    /\ Len(vadOut) = 1
    /\ vadOut[1].type = "SegmentReady"

\* the events of a type in the log of the scripted run
Logged(type) == {i \in DOMAIN vadRun.log : vadRun.log[i].type = type}

\* C21: 50 frames of rms 0.1 followed by 40 frames of rms 0.005, with 20 ms
\* frames and min_speech_ms = 0, produce exactly one SpeechStart and exactly
\* one SegmentReady, whose duration_ms is about 50 x 20 = 1000 (within a
\* tenth of it).
C21_OneSegmentOfSpeechLength ==
    vadRun.fed = LoudFrames + QuietFrames =>
        /\ Cardinality(Logged("SpeechStart")) = 1
        /\ Cardinality(Logged("SegmentReady")) = 1
        /\ \A i \in Logged("SegmentReady") :
            LET speech_ms == LoudFrames * frame_duration_ms(vad.config)
            IN  /\ 10 * vadRun.log[i].duration_ms >= 9 * speech_ms
                /\ 10 * vadRun.log[i].duration_ms <= 11 * speech_ms

\* C22: update_config does not change the outcome of the segment in
\* progress: the samples accumulated are kept, and the next frame, whatever
\* its rms, ends or continues the segment and reports its events (force cut,
\* kept or discarded, duration) exactly as it would have without the call.
C22_UpdateKeepsSegmentInProgress ==
    (vadLast.op = "update_config" /\ vadLast.pre.state = "Speaking") =>
        /\ vad.segment_samples = vadLast.pre.segment_samples
        /\ \A rms \in Rms, wav_ok \in BOOLEAN :
            LET new == process_frame(vad, vad.config.frame_size, rms, wav_ok)
                old == process_frame(vadLast.pre, vadLast.pre.config.frame_size,
                                     rms, wav_ok)
            IN  /\ new.events = old.events
                /\ (new.vad.state = "Speaking") = (old.vad.state = "Speaking")

(***************************************************************************)
(* Claims on the STT pipeline wrapper                                      *)
(***************************************************************************)
\* the events sent since the last call of transcribe began
SentByTranscribe == SubSeq(sttPipe.sent, sttPipe.start + 1, Len(sttPipe.sent))

\* C23: transcribe first emits StateChanged(Processing); once the engine has
\* answered it has emitted FinalTranscript on success or Error on failure
\* and then the closing state change, and the pipeline is in Listening after
\* a success or a recoverable error and in Idle after a non-recoverable one.
C23_TranscribeEvents ==
    /\ sttPipe.pc = "await"
       => (sttPipe.state = "Processing"
           /\ SentByTranscribe = <<StateChanged("Processing")>>)
    /\ sttPipe.pc = "done"
       => LET closing == IF sttPipe.res = "fatal" THEN "Idle" ELSE "Listening"
          IN  /\ sttPipe.state = closing
              /\ SentByTranscribe =
                    <<StateChanged("Processing"),
                      IF sttPipe.res = "ok" THEN FinalTranscript
                      ELSE SttErrorEvent(sttPipe.res),
                      StateChanged(closing)>>

\* a transcription that began in Idle failed for good and ended in Idle
C23_Witness ==
    /\ sttPipe.pc = "done"
    /\ sttPipe.res = "fatal"
    /\ sttPipe.state = "Idle"
    /\ sttPipe.start = 0

(***************************************************************************)
(* Claims on post-processing                                               *)
(***************************************************************************)
\* C24: the entries applied by on_pipeline_transcript and on_transcript_done
\* are exactly the enabled entries that are global, or mode-scoped with no
\* mode or with the mode of the active session, in priority-descending
\* order.
C24_DictionaryApplied ==
    dict.op # "" =>
        LET tbl == dict.table
            want == {id \in DOMAIN tbl :
                        /\ tbl[id].enabled
                        /\ \/ tbl[id].scope = "global"
                           \/ /\ tbl[id].scope = "mode"
                              /\ tbl[id].mode \in {None, Some(dict.mode)}}
        IN  /\ {dict.got[i] : i \in DOMAIN dict.got} = want
            /\ Len(dict.got) = Cardinality(want)
            /\ \A i, j \in DOMAIN dict.got :
                i < j => tbl[dict.got[i]].priority >= tbl[dict.got[j]].priority

\* the characters of a text
CharsOf(text) == {text[i] : i \in DOMAIN text}

\* no pattern shares a character with a replacement or with another pattern
NonOverlapping(entries) ==
    \A i, j \in DOMAIN entries :
        /\ CharsOf(entries[i].pattern) \cap CharsOf(entries[j].replacement) = {}
        /\ i # j => CharsOf(entries[i].pattern) \cap CharsOf(entries[j].pattern) = {}

\* C25: post_process(post_process(x, D), D) = post_process(x, D) for every
\* text x and every dictionary D whose pattern/replacement pairs are pairwise
\* non-overlapping.
C25_PostProcessIdempotent ==
    (Len(pp.out) = 2 /\ NonOverlapping(pp.entries)) => pp.out[2] = pp.out[1]

(***************************************************************************)
(* Claims on the storage                                                   *)
(***************************************************************************)
\* the rows that qualify for the last list_history call
Qualifying ==
    {i \in DOMAIN hist.table :
        hist.cursor = None \/ hist.table[i] < hist.cursor[1]}

\* C26: list_history(limit = L, cursor) returns at most L sessions in
\* created_at-descending order, all strictly older than the cursor when one
\* is given, and sets next_cursor if and only if at least one further row
\* exists beyond the returned page.
C26_HistoryPage ==
    hist.page # <<>> =>
        LET page == hist.page[1]
            items == page.items
        IN  /\ ~page.panicked
            /\ Len(items) <= hist.limit
            /\ \A i, j \in DOMAIN items :
                i < j => /\ items[i] # items[j]
                         /\ hist.table[items[i]] >= hist.table[items[j]]
            /\ \A i \in DOMAIN items : items[i] \in Qualifying
            /\ (page.next_cursor # None)
               <=> (Cardinality(Qualifying) > Len(items))

\* C27: after any sequence of session starts, transcripts for the active
\* session and cleanups, every persisted segment's session_id names an
\* existing session row.
C27_SegmentsHaveSessions ==
    \A seg \in store.segments :
        \E row \in store.sessions : row.session_id = seg.session_id

(***************************************************************************)
(* Claims on the ring buffer                                               *)
(***************************************************************************)
\* the samples in the buffer, oldest first
RingContents ==
    [k \in 1..Occupied(ring.read, ring.write) |->
        ring.buf[(ring.read + k - 1) % RingCapacity]]

C29_NoInputOncePerRun ==
    /\ capt.fired <= 1
    /\ (capt.run >= 1
        /\ capt.run * frame_size * 1000 >= capt.timeout_ms * target_sample_rate)
       => capt.fired = 1
    /\ capt.fired = 1
       => (capt.run + 1) * frame_size * 1000
              > capt.timeout_ms * target_sample_rate

(***************************************************************************)
(* Claims on the toggle_recording command                                  *)
(***************************************************************************)
\* the persisted state of the active session
PersistedState ==
    {rows[i].state : i \in {j \in DOMAIN rows :
                                rows[j].session_id = active[1].session_id}}

C31_PipelineErrorMovesToError ==
    perr.last.before = "recording" => perr.last.after = "error"

(***************************************************************************)
(* Claims on the segment rows                                              *)
(***************************************************************************)
\* C32: a segment row is written only after the STT result for it has
\* returned successfully: outside of a storage call in progress, no segment
\* row has an empty raw_text.
C32_NoRowBeforeTranscript ==
    storeLock = "" => \A i \in DOMAIN segments : segments[i].raw_text # ""

\* C33: a segment's rewritten_text is set at most once: once it is not
\* null, no step changes it.
C33_RewrittenSetOnce ==
    [][\A i \in DOMAIN segments :
          segments[i].rewritten_text # None
          => /\ i \in DOMAIN segments'
             /\ segments'[i].rewritten_text = segments[i].rewritten_text]_vars

(***************************************************************************)
(* Claims on the start of speech                                           *)
(***************************************************************************)
\* C34: from Silence, a frame with rms >= speech_start_threshold moves the
\* VAD to PendingSpeech without an event whenever min_speech_ms > 0, and to
\* Speaking with a SpeechStart only when min_speech_ms = 0; a frame below
\* the threshold leaves it in Silence with no event.
C34_SilenceBranch ==
    (vadLast.op = "process_frame" /\ vadLast.pre.state = "Silence")
    => IF vadLast.rms >= vad.config.speech_start_threshold
       THEN IF vad.config.min_speech_ms > 0
            THEN vad.state = "PendingSpeech" /\ vadOut = <<>>
            ELSE vad.state = "Speaking" /\ vadOut = <<SpeechStart>>
       ELSE vad.state = "Silence" /\ vadOut = <<>>

(***************************************************************************)
(* Claims on the pipeline held by the AppService                           *)
(***************************************************************************)
\* C35: whenever the AppService holds a running pipeline, an active session
\* exists and is in Recording.
C35_PipelineOnlyWhileRecording ==
    pipeline => (active # None /\ active[1].state = Recording)

(***************************************************************************)
(* Claims on the transitions returned                                      *)
(***************************************************************************)
\* the StateTransition that deliver_last builds when the session is not in
\* Delivering
deliver_last_untouched ==
    StateTransition(loc[U].session_id,
                    IF active = None THEN "" ELSE as_str(active[1].state),
                    Idle)

\* the step of deliver_last that returns Ok without a call on the manager
DeliverLastReturnsUntouched ==
    /\ pc[U] = "deliver_last_state"
    /\ pc'[U] = "idle"
    /\ result'[U] = "ok"

\* C36: every StateTransition returned by an AppService operation reports as
\* new_state the state the active session has when the operation returns,
\* and as prev_state the state it had before: so does the transition made
\* by the manager, at the step that makes it and at the return, and so does
\* the transition that deliver_last builds itself.
C36_TransitionReportsState ==
    [][/\ (loc'[U].transition # loc[U].transition
           /\ loc'[U].transition # NoTransition)
          => (/\ active # None
              /\ active' # None
              /\ loc'[U].transition.prev_state = as_str(active[1].state)
              /\ loc'[U].transition.new_state = active'[1].state)
       /\ (/\ loc[U].transition # NoTransition
           /\ pc'[U] = "idle"
           /\ result'[U] = "ok")
          => (active' # None
              /\ loc[U].transition.new_state = active'[1].state)
       /\ DeliverLastReturnsUntouched
          => (/\ active' # None
              /\ deliver_last_untouched.prev_state = as_str(active[1].state)
              /\ deliver_last_untouched.new_state = active'[1].state)]_vars

(***************************************************************************)
(* Claims on the session of a transcript                                   *)
(***************************************************************************)
\* C37: a transcript is persisted as a segment of the session that was
\* active when its audio was captured: when the forwarder of a pipeline
\* whose stop flag has been stored hands a transcript to
\* on_pipeline_transcript, the segment is not stored under a session that
\* was started after that stop.
C37_TranscriptOfItsSession ==
    [][\A g \in DOMAIN pipes :
          (/\ pipes'[g].event_q # pipes[g].event_q
           /\ Len(received') > Len(received)
           /\ closed[g] # 0
           /\ received'[Len(received')].ok)
          => received'[Len(received')].session_id <= closed[g]]_vars

(***************************************************************************)
(* Claims on the persisted state                                           *)
(***************************************************************************)
\* C38: after every AppService command that returns successfully, the state
\* stored in the active session's row equals the session's state in memory.
C38_RowStateIsMemoryState ==
    store.active # 0
    => {row.state : row \in {r \in store.sessions :
                                r.session_id = store.active}} = {store.state}

\* C39: following next_cursor from page to page until it is null returns
\* every session row exactly once, also when several sessions share the same
\* created_at value
C39_WalkReturnsEveryRowOnce ==
    walk.pc = "done" =>
        \A i \in DOMAIN hist.table :
            Cardinality({k \in DOMAIN walk.seen : walk.seen[k] = i}) = 1

\* the same for tables whose created_at values are all different
C39_DistinctStamps ==
    (/\ walk.pc = "done"
     /\ \A i, j \in DOMAIN hist.table : i # j => hist.table[i] # hist.table[j]) =>
        \A i \in DOMAIN hist.table :
            Cardinality({k \in DOMAIN walk.seen : walk.seen[k] = i}) = 1

\* C40: in the event stream of a VadProcessor (process_frame and flush calls
\* in any order), every SegmentReady or SegmentDiscarded is preceded by
\* exactly one SpeechStart emitted since the previous finalization, and every
\* SpeechStart is followed by at most one finalization before the next
\* SpeechStart
C40_OneStartPerFinalization ==
    /\ stream.at_final = 1
    /\ stream.finals <= 1

\* the same for the streams in which no flush found the processor in
\* PendingSpeech with samples
C40_WithoutPendingFlush ==
    ~stream.pending_flush => (stream.at_final = 1 /\ stream.finals <= 1)

====
